---- MODULE Spec2Model ----
(***************************************************************************)
(* Model of the AP election parser (src/parser.py, src/models.py) and of   *)
(* its orchestrator (src/main.py).                                         *)
(*                                                                         *)
(* JSON values of the two feeds are tagged records, so that a missing key, *)
(* a null and a wrong-typed value are three different things, as they are  *)
(* in Python.  Text is a sequence of one-character strings, so that        *)
(* str.split() and str.lower() are computed, not assumed.                  *)
(***************************************************************************)
EXTENDS Integers, Sequences, FiniteSets, TLC

VARIABLES
    progress_data,   \* parse_results argument: race id -> progress entry
    metadata,        \* parse_results argument: race id -> metadata entry
    races,           \* parse_results local/result: race id -> record
    categories,      \* categorize_races local/result: label -> list of records
    pc,              \* position of the batch: "parse", "categorize", "done"
    idx,             \* index of the next key the running loop will visit
    race_meta,       \* is_ballot_measure argument
    result,          \* what the is_ballot_measure call produced
    args,            \* main: parsed command line (years, retry_failed, save)
    current_year,    \* main: datetime.now().year
    valid_years,     \* main: the requested years validate_year accepted
    main_pc,         \* main: position of the orchestrator
    year_idx,        \* main: index of the next year the running loop visits
    max_attempts,    \* main: fetch attempts allowed for the year
    attempt,         \* main: fetch attempts made for the year
    filtered_races,  \* main: the categories the year-type filter kept
    log,             \* main: what was printed, fetched and handed on, in order
    type_idx,        \* main: index into race_types of the detail loop
    race_idx,        \* main: index of the next race of that type
    files,           \* the detailed CSV files: name -> lines
    county_entry,    \* parse_county_result argument: one reporting unit
    db_tables,       \* ElectionDatabase: table name -> rows
    last_load        \* ElectionDatabase: the file load_csv_file was last given

main_vars == <<args, current_year, valid_years, main_pc, year_idx,
               max_attempts, attempt, filtered_races, log>>

detail_vars == <<type_idx, race_idx, files, county_entry>>

db_vars == <<db_tables, last_load>>

vars == <<progress_data, metadata, races, categories, pc, idx, race_meta, result,
          args, current_year, valid_years, main_pc, year_idx,
          max_attempts, attempt, filtered_races, log,
          type_idx, race_idx, files, county_entry, db_tables, last_load>>

-----------------------------------------------------------------------------
(* Bounds of the model.                                                    *)

MaxRaces == 2      \* race ids the two feeds are drawn over
MaxCands == 2      \* candidate ids of the metadata given to the classifier
MaxYears == 2      \* years requested on the command line
MaxSavedYears == 1 \* years requested on a command line with --save

-----------------------------------------------------------------------------
(* JSON / Python values.                                                   *)

Chars(str) == [i \in 1..Len(str) |-> SubSeq(str, i, i)]

JStr(s)  == [t |-> "str", s |-> s]
JNum(n)  == [t |-> "num", n |-> n]
JBool(b) == [t |-> "bool", b |-> b]
JNull    == [t |-> "null"]
JList(l) == [t |-> "list", l |-> l]
S(str)   == JStr(Chars(str))

\* A dict keeps its insertion order k and its mapping d.
Dict(pairs) ==
    [t |-> "dict",
     k |-> [i \in 1..Len(pairs) |-> pairs[i][1]],
     d |-> [key \in {pairs[i][1] : i \in 1..Len(pairs)} |->
               LET i == CHOOSE j \in 1..Len(pairs) : pairs[j][1] = key
               IN  pairs[i][2]]]
EmptyDict == Dict(<<>>)

IsDict(v) == v.t = "dict"
IsStr(v)  == v.t = "str"
IsList(v) == v.t = "list"

Keys(v)   == {v.k[i] : i \in 1..Len(v.k)}

\* variant: only the first two values of the mapping are looked at
values_first_two(v) == {v.d[v.k[i]] : i \in 1..(IF Len(v.k) < 2 THEN Len(v.k) ELSE 2)}

Values(v) == {v.d[key] : key \in Keys(v)}

\* Outcome of a call: a returned value or a raised exception.
Ret(v)    == [ret |-> v]
Raise(e)  == [exc |-> e]
IsExc(r)  == "exc" \in DOMAIN r

\* variant: dict.get(key), the default left out
dict_get_none(v, key, default) == IF key \in Keys(v) THEN v.d[key] ELSE JNull

\* dict.get(key, default)
dict_get(v, key, default) == IF key \in Keys(v) THEN v.d[key] ELSE default

-----------------------------------------------------------------------------
(* Python text operations used by the classifier.                          *)

Whitespace == {" ", "\t", "\n"}

UpperCase == Chars("ABCDEFGHIJKLMNOPQRSTUVWXYZ")
LowerCase == Chars("abcdefghijklmnopqrstuvwxyz")

lower_char(c) ==
    IF \E i \in 1..Len(UpperCase) : UpperCase[i] = c
    THEN LowerCase[CHOOSE i \in 1..Len(UpperCase) : UpperCase[i] = c]
    ELSE c

\* str.lower()
str_lower(s) == [i \in 1..Len(s) |-> lower_char(s[i])]

\* str.split() with no argument: runs of whitespace separate the tokens,
\* leading and trailing whitespace gives no empty token.
RECURSIVE split_from(_, _, _, _)
split_from(s, i, cur, acc) ==
    IF i > Len(s)
    THEN IF cur = <<>> THEN acc ELSE Append(acc, cur)
    ELSE IF s[i] \in Whitespace
         THEN split_from(s, i + 1, <<>>, IF cur = <<>> THEN acc ELSE Append(acc, cur))
         ELSE split_from(s, i + 1, Append(cur, s[i]), acc)

str_split(s) == split_from(s, 1, <<>>, <<>>)

-----------------------------------------------------------------------------
(* ElectionDataParser.is_ballot_measure                                    *)

BALLOT_MEASURE_KEYWORDS ==
    {Chars("Amendment"), Chars("Issue"), Chars("Question"),
     Chars("Measure"), Chars("Proposition"), Chars("Prop")}

\* race_meta.get('suppOfficeID') == 'IME'
supp_office_signal(meta) == dict_get(meta, "suppOfficeID", JNull) = S("IME")

\* variant: the tokens are compared without regard to case
office_name_signal_nocase(office_name) ==
    \E i \in 1..Len(office_name) :
        str_lower(office_name[i]) \in {str_lower(kw) : kw \in BALLOT_MEASURE_KEYWORDS}

\* any(term in cls.BALLOT_MEASURE_KEYWORDS for term in office_name)
office_name_signal(office_name) ==
    \E i \in 1..Len(office_name) : office_name[i] \in BALLOT_MEASURE_KEYWORDS

\* variant: one name of a pair is enough
candidate_names_signal_any(candidate_names) ==
    \/ {Chars("yes"), Chars("no")} \cap candidate_names # {}
    \/ {Chars("for"), Chars("against")} \cap candidate_names # {}

\* {'yes','no'}.issubset(names) or {'for','against'}.issubset(names)
candidate_names_signal(candidate_names) ==
    \/ {Chars("yes"), Chars("no")} \subseteq candidate_names
    \/ {Chars("for"), Chars("against")} \subseteq candidate_names

is_ballot_measure(meta) ==
    IF ~IsDict(meta) THEN Raise("AttributeError")
    ELSE IF supp_office_signal(meta) THEN Ret(TRUE)
    ELSE LET name == dict_get(meta, "officeName", S("")) IN
    IF ~IsStr(name) THEN Raise("AttributeError")
    ELSE IF office_name_signal(str_split(name.s)) THEN Ret(TRUE)
    ELSE LET cands == dict_get(meta, "candidates", EmptyDict) IN
    IF ~IsDict(cands) THEN Raise("AttributeError")
    ELSE IF \E c \in Values(cands) : ~IsDict(c) THEN Raise("AttributeError")
    ELSE IF \E c \in Values(cands) : ~IsStr(dict_get(c, "last", S("")))
         THEN Raise("AttributeError")
    ELSE LET candidate_names ==
                 {str_lower(dict_get(c, "last", S("")).s) : c \in Values(cands)}
         IN  Ret(candidate_names_signal(candidate_names))

-----------------------------------------------------------------------------
(* Python subscription and iteration.                                      *)

\* v[key] for a key written in the code (a str literal).
GetItem(v, key) ==
    IF IsDict(v)
    THEN IF key \in Keys(v) THEN Ret(v.d[key]) ELSE Raise("KeyError")
    ELSE Raise("TypeError")

\* the position seq[n] reads with Python's 0-based and negative indices,
\* 0 when n is out of range
index_seq(len, n) ==
    IF n >= 0 /\ n < len THEN n + 1
    ELSE IF n < 0 /\ 0 - n <= len THEN len + n + 1
    ELSE 0

\* v[key] for a key that is itself a value of the feed.
GetItemV(v, key) ==
    IF IsDict(v)
    THEN IF key.t \in {"list", "dict"} THEN Raise("TypeError")
         ELSE IF IsStr(key) /\ \E k \in Keys(v) : Chars(k) = key.s
              THEN Ret(v.d[CHOOSE k \in Keys(v) : Chars(k) = key.s])
              ELSE Raise("KeyError")
    ELSE IF v.t \in {"list", "str"} /\ key.t \in {"num", "bool"}
         THEN LET n == IF key.t = "num" THEN key.n ELSE IF key.b THEN 1 ELSE 0
                  at == index_seq(IF IsList(v) THEN Len(v.l) ELSE Len(v.s), n)
              IN  IF at = 0 THEN Raise("IndexError")
                  ELSE IF IsList(v) THEN Ret(v.l[at])
                  ELSE Ret(JStr(<<v.s[at]>>))
    ELSE Raise("TypeError")

\* The items a for loop / comprehension over v visits.
Iterate(v) ==
    IF IsList(v) THEN Ret(v.l)
    ELSE IF IsDict(v) THEN Ret([i \in 1..Len(v.k) |-> S(v.k[i])])
    ELSE IF IsStr(v) THEN Ret([i \in 1..Len(v.s) |-> JStr(<<v.s[i]>>)])
    ELSE Raise("TypeError")

\* The first exception of a sequence of outcomes evaluated left to right.
HasExc(rs) == \E i \in 1..Len(rs) : IsExc(rs[i])
FirstExc(rs) ==
    rs[CHOOSE i \in 1..Len(rs) : IsExc(rs[i]) /\ \A j \in 1..(i - 1) : ~IsExc(rs[j])]

-----------------------------------------------------------------------------
(* datetime.fromisoformat, for the shapes YYYY-MM-DD[*HH[:MM[:SS]][+HH:MM]] *)

Digits == Chars("0123456789")
IsDigit(c) == \E i \in 1..10 : Digits[i] = c
DigitVal(c) == (CHOOSE i \in 1..10 : Digits[i] = c) - 1

AllDigits(s, from, to) == \A i \in from..to : IsDigit(s[i])

RECURSIVE ParseInt(_, _, _)
ParseInt(s, from, to) ==
    IF to < from THEN 0 ELSE ParseInt(s, from, to - 1) * 10 + DigitVal(s[to])

IsLeap(y) == (y % 4 = 0 /\ y % 100 # 0) \/ y % 400 = 0
DaysInMonth(y, m) ==
    IF m = 2 THEN (IF IsLeap(y) THEN 29 ELSE 28)
    ELSE IF m \in {4, 6, 9, 11} THEN 30 ELSE 31

ValidDate(s) ==
    /\ Len(s) >= 10
    /\ AllDigits(s, 1, 4) /\ s[5] = "-" /\ AllDigits(s, 6, 7)
    /\ s[8] = "-" /\ AllDigits(s, 9, 10)
    /\ ParseInt(s, 1, 4) >= 1
    /\ ParseInt(s, 6, 7) \in 1..12
    /\ ParseInt(s, 9, 10) \in 1..DaysInMonth(ParseInt(s, 1, 4), ParseInt(s, 6, 7))

\* HH, HH:MM or HH:MM:SS occupying s[from..to]
ValidClock(s, from, to) ==
    /\ (to - from + 1) \in {2, 5, 8}
    /\ \A i \in from..to :
          IF (i - from) % 3 = 2 THEN s[i] = ":" ELSE IsDigit(s[i])
    /\ ParseInt(s, from, from + 1) \in 0..23
    /\ (to - from + 1 >= 5 => ParseInt(s, from + 3, from + 4) \in 0..59)
    /\ (to - from + 1 >= 8 => ParseInt(s, from + 6, from + 7) \in 0..59)

\* position of the sign that starts the UTC offset, 0 if there is none
OffsetAt(s) ==
    IF \E i \in 12..Len(s) : s[i] \in {"+", "-"}
    THEN CHOOSE i \in 12..Len(s) :
             s[i] \in {"+", "-"} /\ \A j \in 12..(i - 1) : s[j] \notin {"+", "-"}
    ELSE 0

ValidOffset(s, at) ==
    /\ Len(s) = at + 5
    /\ AllDigits(s, at + 1, at + 2) /\ s[at + 3] = ":" /\ AllDigits(s, at + 4, at + 5)
    /\ ParseInt(s, at + 1, at + 2) \in 0..23
    /\ ParseInt(s, at + 4, at + 5) \in 0..59

ClockField(s, from, to, n) ==
    IF to - from + 1 >= 3 * n + 2 THEN ParseInt(s, from + 3 * n, from + 3 * n + 1) ELSE 0

fromisoformat(v) ==
    IF ~IsStr(v) THEN Raise("TypeError")
    ELSE LET s   == v.s
             at  == IF Len(s) >= 12 THEN OffsetAt(s) ELSE 0
             cto == IF at = 0 THEN Len(s) ELSE at - 1
         IN
    IF ~ValidDate(s) THEN Raise("ValueError")
    ELSE IF Len(s) = 10
         THEN Ret([year |-> ParseInt(s, 1, 4), month |-> ParseInt(s, 6, 7),
                   day |-> ParseInt(s, 9, 10), hour |-> 0, minute |-> 0,
                   second |-> 0, utcoffset |-> <<>>])
    ELSE IF Len(s) < 13 \/ ~ValidClock(s, 12, cto) THEN Raise("ValueError")
    ELSE IF at # 0 /\ ~ValidOffset(s, at) THEN Raise("ValueError")
    ELSE Ret([year |-> ParseInt(s, 1, 4), month |-> ParseInt(s, 6, 7),
              day |-> ParseInt(s, 9, 10),
              hour |-> ClockField(s, 12, cto, 0),
              minute |-> ClockField(s, 12, cto, 1),
              second |-> ClockField(s, 12, cto, 2),
              utcoffset |->
                  IF at = 0 THEN <<>>
                  ELSE <<(IF s[at] = "-" THEN -1 ELSE 1) *
                         (60 * ParseInt(s, at + 1, at + 2) + ParseInt(s, at + 4, at + 5))>>])

-----------------------------------------------------------------------------
(* ElectionDataParser.get_vote_info                                        *)

\* container.get(field, default) on whatever the subscription produced
vote_get(container, field, default) ==
    IF IsDict(container) THEN Ret(dict_get(container, field, default))
    ELSE Raise("AttributeError")

Caught(r) == IsExc(r) /\ r.exc \in {"KeyError", "TypeError"}

\* variant: the top-level vote object is probed before parameters.vote
get_vote_info_top_first(data, field, default) ==
    LET params == GetItem(data, "parameters")
        nested == IF IsExc(params) THEN params ELSE GetItem(params.ret, "vote")
        top    == GetItem(data, "vote")
    IN  IF ~Caught(top) THEN vote_get(top.ret, field, default)
        ELSE IF ~Caught(nested) THEN vote_get(nested.ret, field, default)
        ELSE Ret(default)

\* variant: a field that parameters.vote lacks is looked up in the top-level
\* vote object
get_vote_info_per_field(data, field, default) ==
    LET params == GetItem(data, "parameters")
        nested == IF IsExc(params) THEN params ELSE GetItem(params.ret, "vote")
        top    == GetItem(data, "vote")
    IN  IF ~Caught(nested) /\ (~IsDict(nested.ret) \/ field \in Keys(nested.ret))
        THEN vote_get(nested.ret, field, default)
        ELSE IF ~Caught(top) THEN vote_get(top.ret, field, default)
        ELSE Ret(default)

\* ElectionDataParser.get_vote_info
get_vote_info(data, field, default) ==
    LET params == GetItem(data, "parameters")
        nested == IF IsExc(params) THEN params ELSE GetItem(params.ret, "vote")
        top    == GetItem(data, "vote")
    IN  IF ~Caught(nested) THEN vote_get(nested.ret, field, default)
        ELSE IF ~Caught(top) THEN vote_get(top.ret, field, default)
        ELSE Ret(default)

-----------------------------------------------------------------------------
(* ElectionDataParser.parse_candidate                                      *)

PersonCandidate(base, first_name, last_name, incumbent) ==
    [kind |-> "PersonCandidate",
     candidate_id |-> base.candidate_id, party |-> base.party,
     ballot_order |-> base.ballot_order, vote_count |-> base.vote_count,
     vote_pct |-> base.vote_pct, first_name |-> first_name,
     last_name |-> last_name, incumbent |-> incumbent,
     advance_total |-> base.advance_total, color_index |-> base.color_index]

BallotOptionCandidate(base, option_name) ==
    [kind |-> "BallotOptionCandidate",
     candidate_id |-> base.candidate_id, party |-> base.party,
     ballot_order |-> base.ballot_order, vote_count |-> base.vote_count,
     vote_pct |-> base.vote_pct, option_name |-> option_name,
     advance_total |-> base.advance_total, color_index |-> base.color_index]

\* variant: a candidate named like a ballot option is taken for an option
is_person_by_name(meta_cand) ==
    /\ "first" \in Keys(meta_cand)
    /\ ~(/\ "last" \in Keys(meta_cand) /\ IsStr(meta_cand.d["last"])
         /\ str_lower(meta_cand.d["last"].s)
                \in {Chars("yes"), Chars("no"), Chars("for"), Chars("against")})

\* 'first' in meta_cand
is_person(meta_cand) == "first" \in Keys(meta_cand)

parse_candidate(prog_data, meta_data) ==
    LET cand_id == GetItem(prog_data, "candidateID")
        cands   == GetItem(meta_data, "candidates")
        r_cand  == IF IsExc(cand_id) THEN cand_id
                   ELSE IF IsExc(cands) THEN cands
                   ELSE GetItemV(cands.ret, cand_id.ret)
    IN
    IF IsExc(r_cand) THEN r_cand
    ELSE LET meta_cand == r_cand.ret
             lookups == <<GetItem(meta_cand, "party"),
                          GetItem(meta_cand, "ballotOrder"),
                          GetItem(prog_data, "voteCount"),
                          GetItem(prog_data, "votePct")>>
         IN
    IF HasExc(lookups) THEN FirstExc(lookups)
    ELSE LET base_args ==
                 [candidate_id  |-> cand_id.ret,
                  party         |-> lookups[1].ret,
                  ballot_order  |-> lookups[2].ret,
                  vote_count    |-> lookups[3].ret,
                  vote_pct      |-> lookups[4].ret,
                  advance_total |-> dict_get(prog_data, "advanceTotal", JNull),
                  color_index   |-> dict_get(prog_data, "colorIndex", JNull)]
             last == GetItem(meta_cand, "last")
         IN
    IF is_person(meta_cand)
    THEN IF IsExc(last) THEN last
         ELSE Ret(PersonCandidate(base_args, meta_cand.d["first"], last.ret,
                                  dict_get(meta_cand, "incumbent", JBool(FALSE))))
    ELSE IF IsExc(last) THEN last
         ELSE Ret(BallotOptionCandidate(base_args, last.ret))

-----------------------------------------------------------------------------
(* ElectionDataParser.parse_race                                           *)

ElectionRace(base, office_id, candidates, seat_name, seat_num, incumbent_id) ==
    [kind |-> "ElectionRace",
     race_id |-> base.race_id, state_postal |-> base.state_postal,
     state_name |-> base.state_name, race_type |-> base.race_type,
     race_call_status |-> base.race_call_status, office_name |-> base.office_name,
     office_id |-> office_id, last_updated |-> base.last_updated,
     precincts_reporting |-> base.precincts_reporting,
     precincts_total |-> base.precincts_total,
     precincts_reporting_pct |-> base.precincts_reporting_pct,
     expected_vote_pct |-> base.expected_vote_pct,
     total_votes |-> base.total_votes, registered_voters |-> base.registered_voters,
     candidates |-> candidates, key_race |-> base.key_race,
     seat_name |-> seat_name, seat_num |-> seat_num, incumbent_id |-> incumbent_id]

BallotMeasure(base, description, category, summary, designation, candidates) ==
    [kind |-> "BallotMeasure",
     race_id |-> base.race_id, state_postal |-> base.state_postal,
     state_name |-> base.state_name, race_type |-> base.race_type,
     race_call_status |-> base.race_call_status, office_name |-> base.office_name,
     last_updated |-> base.last_updated,
     precincts_reporting |-> base.precincts_reporting,
     precincts_total |-> base.precincts_total,
     precincts_reporting_pct |-> base.precincts_reporting_pct,
     expected_vote_pct |-> base.expected_vote_pct,
     total_votes |-> base.total_votes, registered_voters |-> base.registered_voters,
     description |-> description, category |-> category, summary |-> summary,
     designation |-> designation, candidates |-> candidates,
     key_race |-> base.key_race]

\* variant: the candidates are listed in the order of the metadata mapping
parse_candidates_meta_order(items, meta_data) ==
    LET parsed == [i \in 1..Len(items) |-> parse_candidate(items[i], meta_data)]
        keys   == meta_data.d["candidates"].k
        listed == [i \in 1..Len(keys) |->
                      {j \in 1..Len(items) : parsed[j].ret.candidate_id = S(keys[i])}]
        RECURSIVE collect(_)
        collect(i) ==
            IF i = 0 THEN <<>>
            ELSE collect(i - 1) \o
                 (IF listed[i] = {} THEN <<>>
                  ELSE <<parsed[CHOOSE j \in listed[i] : TRUE].ret>>)
    IN  IF Len(items) = 0 THEN Ret(<<>>)
        ELSE IF HasExc(parsed) THEN FirstExc(parsed)
        ELSE Ret(collect(Len(keys)))

\* variant: a candidate that does not resolve is left out of the list
parse_candidates_drop_unresolved(items, meta_data) ==
    LET parsed == [i \in 1..Len(items) |-> parse_candidate(items[i], meta_data)]
        RECURSIVE resolved(_)
        resolved(i) ==
            IF i = 0 THEN <<>>
            ELSE resolved(i - 1) \o (IF IsExc(parsed[i]) THEN <<>> ELSE <<parsed[i].ret>>)
    IN  Ret(resolved(Len(items)))

\* [cls.parse_candidate(pc, meta_data) for pc in prog_data['candidates']]
parse_candidates(items, meta_data) ==
    LET parsed == [i \in 1..Len(items) |-> parse_candidate(items[i], meta_data)]
    IN  IF HasExc(parsed) THEN FirstExc(parsed)
        ELSE Ret([i \in 1..Len(items) |-> parsed[i].ret])

\* variant: the office id is read with meta_data.get('officeID')
parse_race_office_optional(race_id, prog_data, meta_data) ==
    LET total_votes       == get_vote_info(meta_data, "total", JNum(0))
        registered_voters == get_vote_info(meta_data, "registered", JNum(0))
        lookups == <<total_votes,
                     registered_voters,
                     GetItem(prog_data, "statePostal"),
                     GetItem(prog_data, "stateName"),
                     GetItem(meta_data, "raceType"),
                     GetItem(meta_data, "raceCallStatus"),
                     GetItem(meta_data, "officeName"),
                     GetItem(prog_data, "lastUpdated"),
                     GetItem(prog_data, "precinctsReporting"),
                     GetItem(prog_data, "precinctsTotal"),
                     GetItem(prog_data, "precinctsReportingPct"),
                     GetItem(prog_data, "eevp")>>
        last_updated == IF IsExc(lookups[8]) THEN lookups[8]
                        ELSE fromisoformat(lookups[8].ret)
        \* the lookups up to lastUpdated, the conversion, then the rest
        in_order == SubSeq(lookups, 1, 8) \o <<last_updated>> \o SubSeq(lookups, 9, 12)
    IN
    IF HasExc(in_order) THEN FirstExc(in_order)
    ELSE LET base_args ==
                 [race_id |-> race_id,
                  state_postal |-> lookups[3].ret,
                  state_name |-> lookups[4].ret,
                  race_type |-> lookups[5].ret,
                  race_call_status |-> lookups[6].ret,
                  office_name |-> lookups[7].ret,
                  last_updated |-> last_updated.ret,
                  precincts_reporting |-> lookups[9].ret,
                  precincts_total |-> lookups[10].ret,
                  precincts_reporting_pct |-> lookups[11].ret,
                  expected_vote_pct |-> lookups[12].ret,
                  total_votes |-> total_votes.ret,
                  registered_voters |-> registered_voters.ret,
                  key_race |-> dict_get(meta_data, "keyRace", JBool(FALSE))]
             listed == GetItem(prog_data, "candidates")
             items  == IF IsExc(listed) THEN listed ELSE Iterate(listed.ret)
             candidates == IF IsExc(items) THEN items
                           ELSE parse_candidates(items.ret, meta_data)
             measure == is_ballot_measure(meta_data)
         IN
    IF IsExc(candidates) THEN candidates
    ELSE IF IsExc(measure) THEN measure
    ELSE IF measure.ret
         THEN Ret(BallotMeasure(base_args,
                      dict_get(meta_data, "description", meta_data.d["officeName"]),
                      dict_get(meta_data, "category", S("Uncategorized")),
                      dict_get(meta_data, "summary", S("")),
                      dict_get(meta_data, "designation", S("")),
                      candidates.ret))
         ELSE LET office_id == Ret(dict_get(meta_data, "officeID", JNull)) IN
              IF IsExc(office_id) THEN office_id
              ELSE Ret(ElectionRace(base_args, office_id.ret, candidates.ret,
                           dict_get(meta_data, "seatName", JNull),
                           dict_get(meta_data, "seatNum", JNull),
                           dict_get(meta_data, "incumbentID", JNull)))

\* ElectionDataParser.parse_race
parse_race(race_id, prog_data, meta_data) ==
    LET total_votes       == get_vote_info(meta_data, "total", JNum(0))
        registered_voters == get_vote_info(meta_data, "registered", JNum(0))
        lookups == <<total_votes,
                     registered_voters,
                     GetItem(prog_data, "statePostal"),
                     GetItem(prog_data, "stateName"),
                     GetItem(meta_data, "raceType"),
                     GetItem(meta_data, "raceCallStatus"),
                     GetItem(meta_data, "officeName"),
                     GetItem(prog_data, "lastUpdated"),
                     GetItem(prog_data, "precinctsReporting"),
                     GetItem(prog_data, "precinctsTotal"),
                     GetItem(prog_data, "precinctsReportingPct"),
                     GetItem(prog_data, "eevp")>>
        last_updated == IF IsExc(lookups[8]) THEN lookups[8]
                        ELSE fromisoformat(lookups[8].ret)
        \* the lookups up to lastUpdated, the conversion, then the rest
        in_order == SubSeq(lookups, 1, 8) \o <<last_updated>> \o SubSeq(lookups, 9, 12)
    IN
    IF HasExc(in_order) THEN FirstExc(in_order)
    ELSE LET base_args ==
                 [race_id |-> race_id,
                  state_postal |-> lookups[3].ret,
                  state_name |-> lookups[4].ret,
                  race_type |-> lookups[5].ret,
                  race_call_status |-> lookups[6].ret,
                  office_name |-> lookups[7].ret,
                  last_updated |-> last_updated.ret,
                  precincts_reporting |-> lookups[9].ret,
                  precincts_total |-> lookups[10].ret,
                  precincts_reporting_pct |-> lookups[11].ret,
                  expected_vote_pct |-> lookups[12].ret,
                  total_votes |-> total_votes.ret,
                  registered_voters |-> registered_voters.ret,
                  key_race |-> dict_get(meta_data, "keyRace", JBool(FALSE))]
             listed == GetItem(prog_data, "candidates")
             items  == IF IsExc(listed) THEN listed ELSE Iterate(listed.ret)
             candidates == IF IsExc(items) THEN items
                           ELSE parse_candidates(items.ret, meta_data)
             measure == is_ballot_measure(meta_data)
         IN
    IF IsExc(candidates) THEN candidates
    ELSE IF IsExc(measure) THEN measure
    ELSE IF measure.ret
         THEN Ret(BallotMeasure(base_args,
                      dict_get(meta_data, "description", meta_data.d["officeName"]),
                      dict_get(meta_data, "category", S("Uncategorized")),
                      dict_get(meta_data, "summary", S("")),
                      dict_get(meta_data, "designation", S("")),
                      candidates.ret))
         ELSE LET office_id == GetItem(meta_data, "officeID") IN
              IF IsExc(office_id) THEN office_id
              ELSE Ret(ElectionRace(base_args, office_id.ret, candidates.ret,
                           dict_get(meta_data, "seatName", JNull),
                           dict_get(meta_data, "seatNum", JNull),
                           dict_get(meta_data, "incumbentID", JNull)))

-----------------------------------------------------------------------------
(* ElectionDataParser.parse_results and categorize_races, one loop         *)
(* iteration per step.                                                     *)

\* an insertion-ordered mapping (a Python dict held by the program)
EmptyMap == [k |-> <<>>, d |-> [key \in {} |-> <<>>]]
MapKeys(m) == {m.k[i] : i \in 1..Len(m.k)}
MapPut(m, key, v) ==
    [k |-> IF key \in MapKeys(m) THEN m.k ELSE Append(m.k, key),
     d |-> [x \in MapKeys(m) \cup {key} |-> IF x = key THEN v ELSE m.d[x]]]

\* for race_id in progress_data: if race_id in metadata
in_metadata(race_id, meta) == race_id \in Keys(meta)

\* variant: a race id that metadata does not have ends the loop
skip_missing_stops(i, n) == n + 1

\* the index the loop visits after a race id that metadata does not have
skip_missing(i, n) == i + 1

\* variant: the first failed race ends the loop
on_error_stops(i, n) == n + 1

\* except Exception as e: print(...); continue
on_error(i, n) == i + 1

\* races[race_id] = cls.parse_race(...)
store_race(rs, race_id, record) == MapPut(rs, race_id, record)

\* variant: a race that fails to parse is removed from the metadata map
parse_results_iter_pops ==
    /\ pc = "parse"
    /\ idx <= Len(progress_data.k)
    /\ LET race_id == progress_data.k[idx]
           n       == Len(progress_data.k)
       IN  IF in_metadata(race_id, metadata)
           THEN LET r == parse_race(race_id, progress_data.d[race_id],
                                    metadata.d[race_id])
                IN  IF IsExc(r)
                    THEN /\ races' = races
                         /\ idx' = on_error(idx, n)
                         /\ metadata' = [metadata EXCEPT !.d[race_id] = JNull]
                    ELSE /\ races' = store_race(races, race_id, r.ret)
                         /\ idx' = idx + 1
                         /\ metadata' = metadata
           ELSE /\ races' = races
                /\ idx' = skip_missing(idx, n)
                /\ metadata' = metadata
    /\ UNCHANGED <<progress_data, categories, pc, race_meta, result, main_vars, detail_vars, db_vars>>

parse_results_iter ==
    /\ pc = "parse"
    /\ idx <= Len(progress_data.k)
    /\ LET race_id == progress_data.k[idx]
           n       == Len(progress_data.k)
       IN  IF in_metadata(race_id, metadata)
           THEN LET r == parse_race(race_id, progress_data.d[race_id],
                                    metadata.d[race_id])
                IN  IF IsExc(r)
                    THEN /\ races' = races
                         /\ idx' = on_error(idx, n)
                    ELSE /\ races' = store_race(races, race_id, r.ret)
                         /\ idx' = idx + 1
           ELSE /\ races' = races
                /\ idx' = skip_missing(idx, n)
    /\ UNCHANGED <<progress_data, metadata, categories, pc, race_meta, result, main_vars, detail_vars, db_vars>>

\* return races, and the caller passes it to categorize_races
parse_results_return ==
    /\ pc = "parse"
    /\ idx > Len(progress_data.k)
    /\ pc' = "categorize"
    /\ idx' = 1
    /\ UNCHANGED <<progress_data, metadata, races, categories, race_meta, result, main_vars, detail_vars, db_vars>>

\* variant: the office id is compared without regard to case
category_of_nocase(race) ==
    IF race.kind = "BallotMeasure" THEN "Ballot Measures"
    ELSE IF ~IsStr(race.office_id) THEN "Other"
    ELSE IF str_lower(race.office_id.s) = Chars("p") THEN "Presidential"
    ELSE IF str_lower(race.office_id.s) = Chars("s") THEN "Senate"
    ELSE IF str_lower(race.office_id.s) = Chars("h") THEN "House"
    ELSE IF str_lower(race.office_id.s) = Chars("g") THEN "Governor"
    ELSE "Other"

\* the branch of categorize_races a record takes
category_of(race) ==
    IF race.kind = "BallotMeasure" THEN "Ballot Measures"
    ELSE IF race.office_id = S("P") THEN "Presidential"
    ELSE IF race.office_id = S("S") THEN "Senate"
    ELSE IF race.office_id = S("H") THEN "House"
    ELSE IF race.office_id = S("G") THEN "Governor"
    ELSE "Other"

\* variant: the list of the label is replaced, not extended
append_to_overwrite(cats, label, race) == MapPut(cats, label, <<race>>)

\* variant: the list is kept sorted, key races first, then by falling
\* reporting percentage
append_to_sorted(cats, label, race) ==
    LET Rank(r) == (IF r.key_race = JBool(TRUE) THEN 1000 ELSE 0)
                   + r.precincts_reporting_pct.n
        old == IF label \in MapKeys(cats) THEN cats.d[label] ELSE <<>>
        ahead == Cardinality({i \in 1..Len(old) : Rank(old[i]) >= Rank(race)})
    IN  MapPut(cats, label,
               SubSeq(old, 1, ahead) \o <<race>> \o SubSeq(old, ahead + 1, Len(old)))

\* categories[label].append(race) on a defaultdict(list)
append_to(cats, label, race) ==
    MapPut(cats, label,
           IF label \in MapKeys(cats) THEN Append(cats.d[label], race) ELSE <<race>>)

\* variant: a measure is appended to its list and falls through to 'Other'
bucket_fallthrough(cats, race) ==
    IF race.kind = "BallotMeasure"
    THEN append_to(append_to(cats, "Ballot Measures", race), "Other", race)
    ELSE append_to(cats, category_of(race), race)

\* the if/elif chain of one loop iteration: exactly one append
bucket(cats, race) == append_to(cats, category_of(race), race)

categorize_races_iter ==
    /\ pc = "categorize"
    /\ idx <= Len(races.k)
    /\ LET race == races.d[races.k[idx]]
       IN  categories' = bucket(categories, race)
    /\ idx' = idx + 1
    /\ UNCHANGED <<progress_data, metadata, races, pc, race_meta, result, main_vars, detail_vars, db_vars>>

categorize_races_return ==
    /\ pc = "categorize"
    /\ idx > Len(races.k)
    /\ pc' = "done"
    /\ UNCHANGED <<progress_data, metadata, races, categories, idx, race_meta, result, main_vars, detail_vars, db_vars>>

Next ==
    \/ parse_results_iter
    \/ parse_results_return
    \/ categorize_races_iter
    \/ categorize_races_return

-----------------------------------------------------------------------------
(* A single call of is_ballot_measure on a metadata entry.                 *)

NoResult == [none |-> TRUE]

is_ballot_measure_call ==
    /\ result = NoResult
    /\ result' = is_ballot_measure(race_meta)
    /\ UNCHANGED <<progress_data, metadata, races, categories, pc, idx, race_meta, main_vars, detail_vars, db_vars>>

NextClassify == is_ballot_measure_call

\* Optional key: absent, or present with one of the values.
Optional(key, values) == {<<>>} \cup {<< <<key, v>> >> : v \in values}

CandIdSeq == <<"c1", "c2", "c3", "c4">>
RaceIdSeq == <<"r1", "r2", "r3", "r4">>

ClsOfficeNames ==
    {"Amendment 4", "Governor", "amendment 4", "Propositions", "Prop. 1",
     "Issue-1", "State Question 805", "Prop\t12", " Ballot  Measure ",
     "PROP 3", ""}

ClsLastNames ==
    {"Yes", "No", "YES", "no", "For", "Against", "AGAINST", "Smith", "Jones"}

ClsCandidate(last) ==
    Dict(<< <<"party", S("NP")>>, <<"ballotOrder", JNum(1)>> >> \o last)

\* candidates mappings over the first n candidate ids
RECURSIVE ClsCandidateMaps(_, _)
ClsCandidateMaps(n, candidates) ==
    IF n = 0 THEN {<<>>}
    ELSE LET shorter == ClsCandidateMaps(n - 1, candidates)
         IN  shorter \cup
             {m \o << <<CandIdSeq[Len(m) + 1], c>> >> :
                  m \in {x \in shorter : Len(x) = n - 1}, c \in candidates}

ClsTypedCandidates ==
    {ClsCandidate(last) : last \in Optional("last", {S(n) : n \in ClsLastNames})}

ClsMetadata(supps, names, candidate_maps) ==
    {Dict(<< <<"raceType", S("General")>> >> \o supp \o name \o cands) :
        supp \in supps, name \in names, cands \in candidate_maps}

\* metadata whose present fields have the types the feed documents
TypedMetadata ==
    ClsMetadata(Optional("suppOfficeID", {S("IME"), S("XX")}),
                Optional("officeName", {S(n) : n \in ClsOfficeNames}),
                Optional("candidates",
                         {Dict(m) : m \in ClsCandidateMaps(MaxCands, ClsTypedCandidates)}))

\* metadata in which a field may also hold a JSON value of another type
AnyMetadata ==
    ClsMetadata(Optional("suppOfficeID", {S("IME"), JNull}),
                Optional("officeName", {S("Governor"), S("Measure 2"), JNull, JNum(4)}),
                Optional("candidates",
                         {JNull, JList(<<>>)} \cup
                         {Dict(m) : m \in ClsCandidateMaps(MaxCands,
                              {ClsCandidate(last) :
                                   last \in Optional("last", {S("Yes"), S("No"), JNull})}
                              \cup {JNull})}))

\* the orchestrator is not running
MainIdle ==
    /\ args = [years |-> <<>>, retry_failed |-> FALSE, save |-> FALSE]
    /\ current_year = 0
    /\ valid_years = <<>>
    /\ main_pc = "idle"
    /\ year_idx = 1
    /\ max_attempts = 1
    /\ attempt = 0
    /\ filtered_races = EmptyMap
    /\ log = <<>>
    /\ type_idx = 1
    /\ race_idx = 1
    /\ files = EmptyMap
    /\ county_entry = JNull

\* the tables create_tables makes, without the two tracking tables
TableNames ==
    {"ballot_measures", "house_races", "governor_races", "senate_races",
     "presidential_races", "county_results"}

EmptyTables == [table_name \in TableNames |-> {}]

NoLoad == [none |-> TRUE]

\* the database as create_tables leaves it, and no file loaded
DatabaseIdle ==
    /\ db_tables = EmptyTables
    /\ last_load = NoLoad

BatchIdle ==
    /\ progress_data = EmptyDict
    /\ metadata = EmptyDict
    /\ races = EmptyMap
    /\ categories = EmptyMap
    /\ pc = "done"
    /\ idx = 1

InitClassify ==
    /\ BatchIdle
    /\ race_meta \in TypedMetadata
    /\ result = NoResult
    /\ MainIdle
    /\ DatabaseIdle

InitClassifyAny ==
    /\ BatchIdle
    /\ race_meta \in AnyMetadata
    /\ result = NoResult
    /\ MainIdle
    /\ DatabaseIdle

SpecClassify == InitClassify /\ [][NextClassify]_vars
SpecClassifyAny == InitClassifyAny /\ [][NextClassify]_vars

-----------------------------------------------------------------------------
(* Properties of the classifier.                                           *)

Called == result # NoResult

\* the three signals, stated on the metadata entry itself
HasSuppIME(meta) ==
    "suppOfficeID" \in Keys(meta) /\ meta.d["suppOfficeID"] = S("IME")

OfficeNameText(meta) ==
    IF "officeName" \in Keys(meta) /\ IsStr(meta.d["officeName"])
    THEN meta.d["officeName"].s ELSE <<>>

\* s[i..j] is a maximal run of non-whitespace characters of s
IsToken(s, i, j) ==
    /\ i <= j
    /\ \A n \in i..j : s[n] \notin Whitespace
    /\ (i = 1 \/ s[i - 1] \in Whitespace)
    /\ (j = Len(s) \/ s[j + 1] \in Whitespace)

HasKeywordToken(meta) ==
    LET s == OfficeNameText(meta)
    IN  \E i, j \in 1..Len(s) :
            IsToken(s, i, j) /\ SubSeq(s, i, j) \in BALLOT_MEASURE_KEYWORDS

MetaCandidates(meta) ==
    IF "candidates" \in Keys(meta) /\ IsDict(meta.d["candidates"])
    THEN {c \in Values(meta.d["candidates"]) : IsDict(c)} ELSE {}

\* some metadata candidate's 'last', lower-cased, is the given word
HasLastName(meta, word) ==
    \E c \in MetaCandidates(meta) :
        /\ "last" \in Keys(c) /\ IsStr(c.d["last"])
        /\ str_lower(c.d["last"].s) = Chars(word)

HasOptionNames(meta) ==
    \/ HasLastName(meta, "yes") /\ HasLastName(meta, "no")
    \/ HasLastName(meta, "for") /\ HasLastName(meta, "against")

OfficeNameIs(meta, name) ==
    "officeName" \in Keys(meta) /\ meta.d["officeName"] = S(name)

\* C6: is_ballot_measure returns true if and only if suppOfficeID is "IME",
\* or a whitespace-separated token of officeName is a keyword, or the
\* lower-cased 'last' values contain yes and no, or for and against; so
\* "Amendment 4" gives true, "Governor" with Smith/Jones gives false and
\* candidates Yes/No give true whatever the office name.
C6_ThreeSignals ==
    Called =>
      /\ result = Ret(HasSuppIME(race_meta) \/ HasKeywordToken(race_meta)
                      \/ HasOptionNames(race_meta))
      /\ (OfficeNameIs(race_meta, "Amendment 4") => result = Ret(TRUE))
      /\ (/\ OfficeNameIs(race_meta, "Governor")
          /\ ~HasSuppIME(race_meta)
          /\ \A c \in MetaCandidates(race_meta) :
                 "last" \in Keys(c) /\ c.d["last"] \in {S("Smith"), S("Jones")}
          => result = Ret(FALSE))
      /\ (/\ \E c \in MetaCandidates(race_meta) : dict_get(c, "last", JNull) = S("Yes")
          /\ \E c \in MetaCandidates(race_meta) : dict_get(c, "last", JNull) = S("No")
          => result = Ret(TRUE))

\* the call returned true on the strength of the candidate names alone
C6_Witness ==
    /\ result = Ret(TRUE)
    /\ ~HasSuppIME(race_meta)
    /\ ~HasKeywordToken(race_meta)
    /\ HasOptionNames(race_meta)

\* a keyword occurs in the office name in some letter case, possibly inside
\* a longer token
HasKeywordLoosely(meta) ==
    LET s == OfficeNameText(meta)
    IN  \E i, j \in 1..Len(s) :
            i <= j /\ str_lower(SubSeq(s, i, j))
                          \in {str_lower(kw) : kw \in BALLOT_MEASURE_KEYWORDS}

\* C7: the office-name signal is a case-sensitive match of whole tokens: a
\* keyword that occurs only in another case or only inside a longer token
\* does not trigger it, while the candidate-name signal ignores case.
C7_ExactTokenMatch ==
    Called =>
      /\ (/\ ~HasSuppIME(race_meta) /\ ~HasOptionNames(race_meta)
          /\ HasKeywordLoosely(race_meta) /\ ~HasKeywordToken(race_meta)
          => result = Ret(FALSE))
      /\ (/\ \E c \in MetaCandidates(race_meta) : dict_get(c, "last", JNull) = S("YES")
          /\ \E c \in MetaCandidates(race_meta) : dict_get(c, "last", JNull) = S("No")
          => result = Ret(TRUE))
      /\ (/\ \E c \in MetaCandidates(race_meta) : dict_get(c, "last", JNull) = S("For")
          /\ \E c \in MetaCandidates(race_meta) : dict_get(c, "last", JNull) = S("AGAINST")
          => result = Ret(TRUE))

\* the call returned false for an office name holding a keyword in another
\* case or inside a longer token
C7_Witness ==
    /\ result = Ret(FALSE)
    /\ HasKeywordLoosely(race_meta)
    /\ ~HasKeywordToken(race_meta)

\* C8: is_ballot_measure never raises: for every metadata object it returns
\* a boolean, and false when no signal is present.
C8_NeverRaises ==
    Called =>
      /\ ~IsExc(result)
      /\ (/\ ~HasSuppIME(race_meta) /\ ~HasKeywordToken(race_meta)
          /\ ~HasOptionNames(race_meta)
          => result = Ret(FALSE))

-----------------------------------------------------------------------------
(* The two feeds.                                                          *)

ProgressCandidate(id, votes, pct, extra) ==
    Dict(<< <<"candidateID", S(id)>>, <<"voteCount", JNum(votes)>>,
            <<"votePct", JNum(pct)>> >> \o extra)

Advance == << <<"advanceTotal", JNum(7)>>, <<"colorIndex", JNum(2)>> >>
Eevp    == << <<"eevp", JNum(60)>> >>

ProgressEntry(state, updated, candidates, extra) ==
    Dict(<< <<"statePostal", S(state)>>, <<"stateName", S("North Carolina")>>,
            <<"lastUpdated", updated>>, <<"precinctsReporting", JNum(10)>>,
            <<"precinctsTotal", JNum(20)>>, <<"precinctsReportingPct", JNum(50)>>,
            <<"candidates", candidates>> >> \o extra)

\* progress candidate lists: sequences without repetition over the first
\* MaxCands candidate ids and one id ("c9") that no metadata entry has
ListedIds == {CandIdSeq[i] : i \in 1..MaxCands} \cup {"c9"}

Arrangements(ids, n) ==
    {a \in UNION {[1..m -> ids] : m \in 0..n} :
         \A i, j \in 1..Len(a) : i # j => a[i] # a[j]}

\* the vote count and share a listed candidate is given: later ids lead
VotesOf(id) == IF id = "c1" THEN 82 ELSE IF id = "c2" THEN 100 ELSE 5
PctOf(id)   == IF id = "c1" THEN 44 ELSE IF id = "c2" THEN 54 ELSE 2

CandidateList(ids) ==
    JList([i \in 1..Len(ids) |->
              ProgressCandidate(ids[i], VotesOf(ids[i]), PctOf(ids[i]),
                                IF i = 1 THEN Advance ELSE <<>>)])

GoodTime == S("2024-11-05T20:00:00-05:00")

Person(first, last, party, order, extra) ==
    Dict(<< <<"first", S(first)>>, <<"last", S(last)>>, <<"party", S(party)>>,
            <<"ballotOrder", JNum(order)>> >> \o extra)

Option(last, order) ==
    Dict(<< <<"last", S(last)>>, <<"party", S("NP")>>, <<"ballotOrder", JNum(order)>> >>)

\* metadata candidates: ballotOrder runs against the candidate ids
People ==
    Dict(<< <<"c3", Person("Ann", "Poe", "Ind", 1, <<>>)>>,
            <<"c2", Person("Tom", "Roe", "GOP", 2, <<>>)>>,
            <<"c1", Person("Jane", "Doe", "Dem", 3, << <<"incumbent", JBool(TRUE)>> >>)>>,
            <<"c4", Person("Sam", "Low", "Lib", 4, <<>>)>> >>)

Options ==
    Dict(<< <<"c1", Option("Yes", 1)>>, <<"c2", Option("No", 2)>>,
            <<"c3", Option("Abstain", 3)>>, <<"c4", Option("Blank", 4)>> >>)

\* a person named Yes, an option, and people
Mixed ==
    Dict(<< <<"c1", Person("Ima", "Yes", "Ind", 1, <<>>)>>,
            <<"c2", Option("No", 2)>>,
            <<"c3", Person("Ann", "Poe", "Ind", 3, <<>>)>>,
            <<"c4", Option("Write-in", 4)>> >>)

\* candidate c1 has no party, candidate c2 has neither first nor last
Broken ==
    Dict(<< <<"c1", Dict(<< <<"first", S("Jane")>>, <<"last", S("Doe")>>,
                            <<"ballotOrder", JNum(1)>> >>)>>,
            <<"c2", Dict(<< <<"party", S("GOP")>>, <<"ballotOrder", JNum(2)>> >>)>>,
            <<"c3", JNull>>,
            <<"c4", Person("Sam", "Low", "Lib", 4, <<>>)>> >>)

MetadataEntry(name, candidates, extra) ==
    Dict(<< <<"raceType", S("General")>>, <<"raceCallStatus", S("Not Called")>> >>
         \o name \o candidates \o extra)

RaceIds == {RaceIdSeq[i] : i \in 1..MaxRaces}

\* a feed: the given race ids in the given order, each with one of the entries
Feeds(orders, entries) ==
    {[t |-> "dict", k |-> order, d |-> d] :
        order \in orders,
        d \in UNION {[ids -> entries] : ids \in SUBSET RaceIds}}

FeedsInOrder(orders, entries) ==
    {f \in Feeds(orders, entries) : DOMAIN f.d = {f.k[i] : i \in 1..Len(f.k)}}

\* Batch: progress entries that reconcile, and one whose timestamp names
\* the 31st of November
BatchProgress ==
    {ProgressEntry("NC", GoodTime, CandidateList(<<"c1", "c2">>), Eevp),
     ProgressEntry("OH", S("2024-11-05"), CandidateList(<<"c2", "c1">>), Eevp),
     ProgressEntry("NC", S("2024-11-31T20:00:00"), CandidateList(<<"c1", "c2">>), Eevp)}

\* Batch: candidate races, measures, an entry without officeID and a null
BatchMetadata ==
    {MetadataEntry(<< <<"officeName", S("Governor")>> >>,
                   << <<"candidates", People>> >>, << <<"officeID", S("G")>> >>),
     MetadataEntry(<< <<"officeName", S("President")>> >>,
                   << <<"candidates", People>> >>,
                   << <<"officeID", S("P")>>, <<"keyRace", JBool(TRUE)>> >>),
     MetadataEntry(<< <<"officeName", S("Amendment 4")>> >>,
                   << <<"candidates", Options>> >>, << <<"officeID", S("I")>> >>),
     MetadataEntry(<< <<"officeName", S("Governor")>> >>,
                   << <<"candidates", People>> >>,
                   << <<"officeID", S("G")>>, <<"suppOfficeID", S("IME")>> >>),
     MetadataEntry(<< <<"officeName", S("Governor")>> >>,
                   << <<"candidates", People>> >>, <<>>),
     JNull}

\* the metadata feed lists its race ids in the order of RaceIdSeq
RaceIndex(id) == CHOOSE i \in 1..Len(RaceIdSeq) : RaceIdSeq[i] = id
FeedOrder ==
    {a \in Arrangements(RaceIds, MaxRaces) :
         \A i, j \in 1..Len(a) : i < j => RaceIndex(a[i]) < RaceIndex(a[j])}

Init ==
    /\ progress_data \in FeedsInOrder(Arrangements(RaceIds, MaxRaces), BatchProgress)
    /\ metadata \in FeedsInOrder(FeedOrder, BatchMetadata)
    /\ races = EmptyMap
    /\ categories = EmptyMap
    /\ pc = "parse"
    /\ idx = 1
    /\ race_meta = JNull
    /\ result = NoResult
    /\ MainIdle
    /\ DatabaseIdle

Spec == Init /\ [][Next]_vars

-----------------------------------------------------------------------------
(* One race, drawn from every combination of the parts of its two entries. *)

RaceProgress ==
    {ProgressEntry("NC", updated, candidates, eevp) :
        updated \in {GoodTime, S("2024-11-05"), S("2024-11-31T20:00:00"),
                     JNum(1730854800)},
        candidates \in {CandidateList(a) : a \in Arrangements(ListedIds, MaxCands)}
                       \cup {JNull},
        eevp \in {Eevp, <<>>}}

RaceMetadata ==
    {MetadataEntry(name, candidates, office \o supp) :
        name \in Optional("officeName", {S("Governor"), S("Amendment 4")}),
        candidates \in Optional("candidates", {People, Options, Mixed, Broken}),
        office \in Optional("officeID", {S("P"), S("S"), S("H"), S("G"), S("Z"), S("p")}),
        supp \in Optional("suppOfficeID", {S("IME")})}

One(id, entry) == Dict(<< <<id, entry>> >>)

InitRace ==
    /\ progress_data \in {One("r1", e) : e \in RaceProgress}
    /\ metadata \in {One("r1", e) : e \in RaceMetadata}
    /\ races = EmptyMap
    /\ categories = EmptyMap
    /\ pc = "parse"
    /\ idx = 1
    /\ race_meta = JNull
    /\ result = NoResult
    /\ MainIdle
    /\ DatabaseIdle

SpecRace == InitRace /\ [][Next]_vars

-----------------------------------------------------------------------------
(* Properties of the batch.                                                *)

Common == Keys(progress_data) \cap Keys(metadata)
OneFeedOnly == (Keys(progress_data) \cup Keys(metadata)) \ Common

\* what reconciling one race id of both feeds gives
Outcome(id) == parse_race(id, progress_data.d[id], metadata.d[id])

\* position of a race id in the progress feed
ProgressIndex(id) == CHOOSE i \in 1..Len(progress_data.k) : progress_data.k[i] = id

\* the race ids parse_results has dealt with so far
Visited ==
    IF pc = "parse" THEN {progress_data.k[i] : i \in 1..(idx - 1)}
    ELSE Keys(progress_data)

\* every record of the category map, by label and position
PlacedRecords == UNION {{<<label, i>> : i \in 1..Len(categories.d[label])} :
                            label \in MapKeys(categories)}
RecordAt(place) == categories.d[place[1]][place[2]]

\* C1: one bad race never stops parse_results: a race id whose
\* reconciliation fails is absent from the result, and every other race id
\* of both feeds that reconciles is present.
C1_BadRaceSkipped ==
    \A id \in Visited \cap Common :
        IF IsExc(Outcome(id)) THEN id \notin MapKeys(races)
        ELSE id \in MapKeys(races)

\* the batch finished, a race failed, and a race after it was reconciled
C1_Witness ==
    /\ pc = "done"
    /\ \E bad, good \in Common :
          /\ IsExc(Outcome(bad))
          /\ ProgressIndex(bad) < ProgressIndex(good)
          /\ good \in MapKeys(races)

\* the result of parse_results on the given feeds, race by race
RECURSIVE Reconciled(_, _, _)
Reconciled(progress, meta, n) ==
    IF n = 0 THEN EmptyMap
    ELSE LET before == Reconciled(progress, meta, n - 1)
             id     == progress.k[n]
         IN  IF id \notin Keys(meta) THEN before
             ELSE LET r == parse_race(id, progress.d[id], meta.d[id])
                  IN  IF IsExc(r) THEN before ELSE MapPut(before, id, r.ret)

\* a feed without the race ids outside the given set
RECURSIVE KeepOrder(_, _)
KeepOrder(order, ids) ==
    IF order = <<>> THEN <<>>
    ELSE (IF Head(order) \in ids THEN <<Head(order)>> ELSE <<>>)
         \o KeepOrder(Tail(order), ids)
Restrict(feed, ids) ==
    [t |-> "dict", k |-> KeepOrder(feed.k, ids),
     d |-> [id \in Keys(feed) \cap ids |-> feed.d[id]]]

\* C2: a race id of only one feed never appears in the output of
\* parse_results or categorize_races, and the records of the other race ids
\* are those the feeds give without it.
C2_OneFeedOnlySkipped ==
    /\ \A id \in OneFeedOnly :
          /\ id \notin MapKeys(races)
          /\ \A place \in PlacedRecords : RecordAt(place).race_id # id
    /\ pc # "parse" =>
          races = Reconciled(Restrict(progress_data, Common),
                             Restrict(metadata, Common), Cardinality(Common))

\* the batch finished; a race id of the progress feed alone came before a
\* race that was reconciled and categorized
C2_Witness ==
    /\ pc = "done"
    /\ \E lone \in Keys(progress_data) \ Keys(metadata), id \in MapKeys(races) :
          /\ ProgressIndex(lone) < ProgressIndex(id)
          /\ \E place \in PlacedRecords : RecordAt(place).race_id = id

\* C3: every race id appears in at most one category list and at most once
\* within that list.
C3_OneCategoryPerRace ==
    \A p1, p2 \in PlacedRecords :
        RecordAt(p1).race_id = RecordAt(p2).race_id => p1 = p2

\* the batch finished with a measure and another race in the category map
C3_Witness ==
    /\ pc = "done"
    /\ \E p1, p2 \in PlacedRecords :
          /\ p1 # p2
          /\ RecordAt(p1).kind = "BallotMeasure"

RECURSIVE TotalLength(_, _)
TotalLength(cats, n) ==
    IF n = 0 THEN 0 ELSE TotalLength(cats, n - 1) + Len(cats.d[cats.k[n]])

\* C4: the lengths of the category lists add up to the number of race ids
\* that are in both feeds and whose reconciliation did not fail.
C4_CategoriesCountReconciled ==
    pc = "done" =>
        TotalLength(categories, Len(categories.k))
            = Cardinality({id \in Common : ~IsExc(Outcome(id))})

\* the batch finished with two races in one category list
C4_Witness ==
    /\ pc = "done"
    /\ \E label \in MapKeys(categories) : Len(categories.d[label]) >= 2

-----------------------------------------------------------------------------
(* Properties of the records.                                              *)

Labels == {"Presidential", "Senate", "House", "Governor", "Ballot Measures", "Other"}

\* the label the office id of a candidate race stands for
OfficeLabel(office_id) ==
    IF office_id = S("P") THEN "Presidential"
    ELSE IF office_id = S("S") THEN "Senate"
    ELSE IF office_id = S("H") THEN "House"
    ELSE IF office_id = S("G") THEN "Governor"
    ELSE "Other"

\* C5: a BallotMeasure is listed under "Ballot Measures" whatever the
\* officeID of its metadata; an ElectionRace under "Presidential", "Senate",
\* "House" or "Governor" when its office_id is exactly P, S, H or G and
\* under "Other" otherwise; no other label is produced.
C5_CategoryFromRecord ==
    /\ MapKeys(categories) \subseteq Labels
    /\ \A place \in PlacedRecords :
          LET race == RecordAt(place)
          IN  /\ race.kind = "BallotMeasure" => place[1] = "Ballot Measures"
              /\ race.kind = "ElectionRace" => place[1] = OfficeLabel(race.office_id)
    /\ \A id \in Visited \cap MapKeys(races) :
          (pc = "done" /\ races.d[id].kind = "BallotMeasure") =>
              \E i \in 1..Len(categories.d["Ballot Measures"]) :
                  categories.d["Ballot Measures"][i] = races.d[id]

\* a measure whose metadata officeID is G is listed under "Ballot Measures"
C5_Witness ==
    /\ pc = "done"
    /\ \E place \in PlacedRecords :
          /\ place[1] = "Ballot Measures"
          /\ dict_get(metadata.d[RecordAt(place).race_id], "officeID", JNull) = S("G")

\* the metadata candidate a record's candidate was resolved from
MetaCandidateOf(id, cand) ==
    LET cands == metadata.d[id].d["candidates"]
    IN  cands.d[CHOOSE key \in Keys(cands) : S(key) = cand.candidate_id]

\* C9: a candidate of a reconciled race is a PersonCandidate exactly when
\* its metadata candidate has a 'first' key, and a BallotOptionCandidate
\* whose option_name is the metadata 'last' exactly when it has none,
\* whatever the race's classification, office id or the candidate's name.
C9_FirstKeyDecidesVariant ==
    \A id \in MapKeys(races) :
        \A i \in 1..Len(races.d[id].candidates) :
            LET cand == races.d[id].candidates[i]
                meta_cand == MetaCandidateOf(id, cand)
            IN  IF "first" \in Keys(meta_cand)
                THEN /\ cand.kind = "PersonCandidate"
                     /\ cand.first_name = meta_cand.d["first"]
                     /\ cand.last_name = meta_cand.d["last"]
                ELSE /\ cand.kind = "BallotOptionCandidate"
                     /\ cand.option_name = meta_cand.d["last"]

\* a measure with a person named Yes among its candidates, or a candidate
\* race with a ballot option among its candidates
C9_Witness ==
    \E id \in MapKeys(races) :
        \E i \in 1..Len(races.d[id].candidates) :
            LET cand == races.d[id].candidates[i]
            IN  \/ /\ races.d[id].kind = "BallotMeasure"
                   /\ cand.kind = "PersonCandidate"
                   /\ cand.last_name = S("Yes")
                \/ /\ races.d[id].kind = "ElectionRace"
                   /\ cand.kind = "BallotOptionCandidate"

\* C10: the candidates of a record are the progress entry's candidates, in
\* the progress entry's order: same length, and the i-th carries the id,
\* vote count and vote percentage of the i-th progress candidate.
C10_ProgressOrderKept ==
    \A id \in MapKeys(races) :
        LET listed == progress_data.d[id].d["candidates"].l
            candidates == races.d[id].candidates
        IN  /\ Len(candidates) = Len(listed)
            /\ \A i \in 1..Len(listed) :
                  /\ candidates[i].candidate_id = listed[i].d["candidateID"]
                  /\ candidates[i].vote_count = listed[i].d["voteCount"]
                  /\ candidates[i].vote_pct = listed[i].d["votePct"]

\* a record of two candidates whose progress order is neither the order of
\* the metadata mapping, nor by ballotOrder, nor by falling vote count
C10_Witness ==
    \E id \in MapKeys(races) :
        LET candidates == races.d[id].candidates
        IN  /\ Len(candidates) = 2
            /\ candidates[1].candidate_id = S("c1")
            /\ candidates[2].candidate_id = S("c2")
            /\ candidates[1].ballot_order.n > candidates[2].ballot_order.n
            /\ candidates[1].vote_count.n < candidates[2].vote_count.n
            /\ Cardinality(Keys(metadata.d[id].d["candidates"])) > 2

-----------------------------------------------------------------------------
(* Races whose progress entry lists a candidate that metadata lacks.       *)

UnresolvedProgress ==
    {ProgressEntry("NC", GoodTime, CandidateList(<<"c1", "c2">>), Eevp),
     ProgressEntry("NC", GoodTime, CandidateList(<<"c1", "c9">>), Eevp),
     ProgressEntry("OH", GoodTime, CandidateList(<<"c9", "c2">>), Eevp)}

UnresolvedMetadata ==
    {MetadataEntry(<< <<"officeName", S("Governor")>> >>,
                   << <<"candidates", People>> >>, << <<"officeID", S("G")>> >>),
     MetadataEntry(<< <<"officeName", S("Amendment 4")>> >>,
                   << <<"candidates", Options>> >>, <<>>)}

InitUnresolved ==
    /\ progress_data \in FeedsInOrder(Arrangements(RaceIds, MaxRaces), UnresolvedProgress)
    /\ metadata \in FeedsInOrder(FeedOrder, UnresolvedMetadata)
    /\ races = EmptyMap
    /\ categories = EmptyMap
    /\ pc = "parse"
    /\ idx = 1
    /\ race_meta = JNull
    /\ result = NoResult
    /\ MainIdle
    /\ DatabaseIdle

SpecUnresolved == InitUnresolved /\ [][Next]_vars

\* the race ids of both feeds whose progress entry lists a candidateID that
\* is not a key of the race's metadata candidates
Unresolved ==
    {id \in Common :
        LET listed == progress_data.d[id].d["candidates"].l
            known  == Keys(metadata.d[id].d["candidates"])
        IN  \E i \in 1..Len(listed) :
                \A key \in known : S(key) # listed[i].d["candidateID"]}

\* C11: a race whose progress entry lists a candidate that its metadata
\* does not have is excluded whole - no record of it, full or partial, is
\* in the output - and the other races are reconciled as if it were not in
\* the feeds.
C11_UnresolvedCandidateExcludesRace ==
    /\ \A id \in Unresolved :
          /\ id \notin MapKeys(races)
          /\ \A place \in PlacedRecords : RecordAt(place).race_id # id
    /\ pc # "parse" =>
          races = Reconciled(Restrict(progress_data, Common \ Unresolved),
                             Restrict(metadata, Common \ Unresolved),
                             Cardinality(Common \ Unresolved))

\* the batch finished; a race with an unresolved candidate came before a
\* race that was reconciled
C11_Witness ==
    /\ pc = "done"
    /\ \E bad \in Unresolved, id \in MapKeys(races) :
          ProgressIndex(bad) < ProgressIndex(id)

-----------------------------------------------------------------------------
(* One race, drawn over the optional parts of its metadata entry.          *)

VoteObject(total, registered) ==
    Dict(total \o registered)

\* the progress entry carries vote objects of its own
ProgressVotes ==
    << <<"parameters", Dict(<< <<"vote", Dict(<< <<"total", JNum(99)>>,
                                                 <<"registered", JNum(98)>> >>)>> >>)>>,
       <<"vote", Dict(<< <<"total", JNum(97)>>, <<"registered", JNum(96)>> >>)>> >>

FieldsProgress ==
    {ProgressEntry("NC", GoodTime, CandidateList(<<"c1", "c2">>), Eevp \o votes) :
        votes \in {<<>>, ProgressVotes}}

NestedVotes ==
    {VoteObject(total, registered) :
        total \in Optional("total", {JNum(5)}),
        registered \in Optional("registered", {JNum(9)})}

TopVotes ==
    {VoteObject(total, registered) :
        total \in Optional("total", {JNum(7)}),
        registered \in Optional("registered", {JNum(11)})}

FieldsRaces ==
    {<< <<"officeName", S("Governor")>>, <<"candidates", People>>,
        <<"officeID", S("G")>> >>,
     << <<"officeName", S("Amendment 4")>>, <<"candidates", Options>> >>}

FieldsMetadata ==
    {MetadataEntry(race, parameters \o vote,
                   description \o category \o summary \o designation) :
        race \in FieldsRaces,
        parameters \in Optional("parameters",
            {EmptyDict} \cup {Dict(<< <<"vote", v>> >>) : v \in NestedVotes}),
        vote \in Optional("vote", TopVotes),
        description \in Optional("description", {S("Restores voting rights")}),
        category \in Optional("category", {S("Elections")}),
        summary \in Optional("summary", {S("A yes vote restores")}),
        designation \in Optional("designation", {S("A4")})}

InitFields ==
    /\ progress_data \in {One("r1", e) : e \in FieldsProgress}
    /\ metadata \in {One("r1", e) : e \in FieldsMetadata}
    /\ races = EmptyMap
    /\ categories = EmptyMap
    /\ pc = "parse"
    /\ idx = 1
    /\ race_meta = JNull
    /\ result = NoResult
    /\ MainIdle
    /\ DatabaseIdle

SpecFields == InitFields /\ [][Next]_vars

\* the vote object the claim resolves the totals from: parameters.vote when
\* present, else the top-level vote when present, else none
HasNestedVote(meta) ==
    /\ "parameters" \in Keys(meta) /\ IsDict(meta.d["parameters"])
    /\ "vote" \in Keys(meta.d["parameters"])
HasTopVote(meta) == "vote" \in Keys(meta)

ResolvedVote(meta, field) ==
    IF HasNestedVote(meta)
    THEN LET vote == meta.d["parameters"].d["vote"]
         IN  IF field \in Keys(vote) THEN vote.d[field] ELSE JNum(0)
    ELSE IF HasTopVote(meta)
    THEN LET vote == meta.d["vote"]
         IN  IF field \in Keys(vote) THEN vote.d[field] ELSE JNum(0)
    ELSE JNum(0)

\* C12: total_votes and registered_voters come from the metadata entry:
\* from parameters.vote when that object is present, otherwise from the
\* top-level vote object when present, otherwise 0; a race with neither is
\* still reconciled, with both at 0.
C12_VoteInfoFromMetadata ==
    /\ \A id \in MapKeys(races) :
          /\ races.d[id].total_votes = ResolvedVote(metadata.d[id], "total")
          /\ races.d[id].registered_voters = ResolvedVote(metadata.d[id], "registered")
    /\ \A id \in Visited \cap Common :
          (~HasNestedVote(metadata.d[id]) /\ ~HasTopVote(metadata.d[id])) =>
              /\ id \in MapKeys(races)
              /\ races.d[id].total_votes = JNum(0)
              /\ races.d[id].registered_voters = JNum(0)

\* a record took total 5 from parameters.vote although the top-level vote
\* says 7 and the progress entry says 99
C12_Witness ==
    \E id \in MapKeys(races) :
        /\ races.d[id].total_votes = JNum(5)
        /\ HasTopVote(metadata.d[id])
        /\ dict_get(metadata.d[id].d["vote"], "total", JNull) = JNum(7)
        /\ "parameters" \in Keys(progress_data.d[id])

-----------------------------------------------------------------------------
(* One race whose vote-info containers may hold a JSON value of any type.  *)

WrongTyped == {JNull, JList(<<>>), S("n/a"), JNum(1)}

AnyVoteMetadata ==
    {MetadataEntry(<< <<"officeName", S("Governor")>>, <<"candidates", People>>,
                      <<"officeID", S("G")>> >>,
                   parameters \o vote, <<>>) :
        parameters \in Optional("parameters",
            WrongTyped \cup {EmptyDict}
            \cup {Dict(<< <<"vote", v>> >>) : v \in WrongTyped}),
        vote \in Optional("vote",
            WrongTyped \cup {Dict(<< <<"total", JNum(7)>>, <<"registered", JNum(11)>> >>)})}

InitFieldsAny ==
    /\ progress_data \in {One("r1", e) : e \in FieldsProgress}
    /\ metadata \in {One("r1", e) : e \in AnyVoteMetadata}
    /\ races = EmptyMap
    /\ categories = EmptyMap
    /\ pc = "parse"
    /\ idx = 1
    /\ race_meta = JNull
    /\ result = NoResult
    /\ MainIdle
    /\ DatabaseIdle

SpecFieldsAny == InitFieldsAny /\ [][Next]_vars

\* a vote object that can be read: an object at parameters.vote or at vote
HasVoteObject(meta) ==
    \/ HasNestedVote(meta) /\ IsDict(meta.d["parameters"].d["vote"])
    \/ HasTopVote(meta) /\ IsDict(meta.d["vote"])

\* C13: a malformed vote-info container is never an error: when parameters,
\* parameters.vote or vote is missing or is not an object, get_vote_info
\* gives the default 0 and the race is reconciled with it.
C13_MalformedVoteInfoDefaults ==
    \A id \in Visited \cap Common :
        /\ id \in MapKeys(races)
        /\ ~HasVoteObject(metadata.d[id]) =>
              /\ races.d[id].total_votes = JNum(0)
              /\ races.d[id].registered_voters = JNum(0)

\* C14: a race whose progress entry omits eevp but is otherwise well-formed
\* is still reconciled and emitted.
C14_EevpOptional ==
    \A id \in Visited \cap Common :
        LET entry == progress_data.d[id]
            with_eevp == Dict([i \in 1..Len(entry.k) |-> <<entry.k[i], entry.d[entry.k[i]]>>]
                              \o Eevp)
        IN  (/\ "eevp" \notin Keys(entry)
             /\ ~IsExc(parse_race(id, with_eevp, metadata.d[id])))
            => id \in MapKeys(races)

\* C15: a ballot measure whose metadata omits the optional fields is still
\* produced, with category "Uncategorized", summary "", designation "" and
\* description the officeName; fields that are present are used unchanged.
C15_MeasureDefaults ==
    \A id \in MapKeys(races) :
        LET race == races.d[id]
            meta == metadata.d[id]
            Field(key, default) == IF key \in Keys(meta) THEN meta.d[key] ELSE default
        IN  race.kind = "BallotMeasure" =>
                /\ race.category = Field("category", S("Uncategorized"))
                /\ race.summary = Field("summary", S(""))
                /\ race.designation = Field("designation", S(""))
                /\ race.description = Field("description", meta.d["officeName"])

\* a measure was produced from metadata without any of the four fields
C15_Witness ==
    \E id \in MapKeys(races) :
        /\ races.d[id].kind = "BallotMeasure"
        /\ Keys(metadata.d[id]) \cap {"description", "category", "summary", "designation"} = {}
        /\ races.d[id].category = S("Uncategorized")
        /\ races.d[id].description = S("Amendment 4")

-----------------------------------------------------------------------------
(* Races that share a metadata entry, up to the order of its candidates.   *)

\* the options of a measure, listed in another order
OptionsReordered ==
    Dict(<< <<"c3", Option("Abstain", 3)>>, <<"c4", Option("Blank", 4)>>,
            <<"c2", Option("No", 2)>>, <<"c1", Option("Yes", 1)>> >>)

TwinsProgress ==
    {ProgressEntry("NC", GoodTime, CandidateList(<<"c1", "c2">>), Eevp),
     ProgressEntry("OH", S("2024-11-05"), CandidateList(<<"c2", "c1">>), Eevp)}

TwinsMetadata ==
    {MetadataEntry(<< <<"officeName", S("Referendum")>> >>,
                   << <<"candidates", Options>> >>, << <<"officeID", S("I")>> >>),
     MetadataEntry(<< <<"officeName", S("Referendum")>> >>,
                   << <<"candidates", OptionsReordered>> >>, << <<"officeID", S("I")>> >>),
     MetadataEntry(<< <<"officeName", S("Governor")>> >>,
                   << <<"candidates", People>> >>, << <<"officeID", S("G")>> >>),
     MetadataEntry(<< <<"officeName", S("Governor")>> >>,
                   << <<"candidates", People>> >>,
                   << <<"officeID", S("G")>>, <<"suppOfficeID", S("IME")>> >>)}

InitTwins ==
    /\ progress_data \in FeedsInOrder(Arrangements(RaceIds, MaxRaces), TwinsProgress)
    /\ metadata \in FeedsInOrder(FeedOrder, TwinsMetadata)
    /\ races = EmptyMap
    /\ categories = EmptyMap
    /\ pc = "parse"
    /\ idx = 1
    /\ race_meta = JNull
    /\ result = NoResult
    /\ MainIdle
    /\ DatabaseIdle

SpecTwins == InitTwins /\ [][Next]_vars

\* what a metadata entry says, whatever the order of its candidates
EntryContent(entry) ==
    [key \in Keys(entry) |->
        IF key = "candidates"
        THEN [t |-> "candidates",
              d |-> [c \in Keys(entry.d[key]) |-> entry.d[key].d[c].d]]
        ELSE entry.d[key]]

\* C16: the ballot-measure classification of a race is a function of its
\* metadata entry only: races whose metadata entries say the same are
\* classified alike, whatever their progress entries, the other races of
\* the feeds, and the order of the race ids or of the metadata candidates.
C16_ClassifiedByMetadataOnly ==
    /\ \A id1, id2 \in MapKeys(races) :
          EntryContent(metadata.d[id1]) = EntryContent(metadata.d[id2])
              => races.d[id1].kind = races.d[id2].kind
    /\ \A id \in MapKeys(races) :
          races.d[id].kind = "BallotMeasure"
              <=> \/ HasSuppIME(metadata.d[id])
                  \/ HasKeywordToken(metadata.d[id])
                  \/ HasOptionNames(metadata.d[id])

\* two measures were reconciled from metadata entries that differ only in
\* the order of their candidates, and from different progress entries
C16_Witness ==
    \E id1, id2 \in MapKeys(races) :
        /\ id1 # id2
        /\ metadata.d[id1] # metadata.d[id2]
        /\ EntryContent(metadata.d[id1]) = EntryContent(metadata.d[id2])
        /\ progress_data.d[id1] # progress_data.d[id2]
        /\ races.d[id1].kind = "BallotMeasure"

-----------------------------------------------------------------------------
(* Races of one category that differ in reporting percentage and key-race  *)
(* flag.                                                                   *)

Reporting(entry, reporting, pct) ==
    [entry EXCEPT !.d["precinctsReporting"] = JNum(reporting),
                  !.d["precinctsReportingPct"] = JNum(pct)]

OrderProgress ==
    {Reporting(ProgressEntry("NC", GoodTime, CandidateList(<<"c1", "c2">>), Eevp), 4, 20),
     Reporting(ProgressEntry("OH", GoodTime, CandidateList(<<"c1", "c2">>), Eevp), 18, 90)}

OrderMetadata ==
    {MetadataEntry(<< <<"officeName", S("Governor")>> >>,
                   << <<"candidates", People>> >>, << <<"officeID", S("G")>> >>),
     MetadataEntry(<< <<"officeName", S("Governor")>> >>,
                   << <<"candidates", People>> >>,
                   << <<"officeID", S("G")>>, <<"keyRace", JBool(TRUE)>> >>),
     MetadataEntry(<< <<"officeName", S("Amendment 4")>> >>,
                   << <<"candidates", Options>> >>, <<>>)}

InitOrder ==
    /\ progress_data \in FeedsInOrder(Arrangements(RaceIds, MaxRaces), OrderProgress)
    /\ metadata \in FeedsInOrder(FeedOrder, OrderMetadata)
    /\ races = EmptyMap
    /\ categories = EmptyMap
    /\ pc = "parse"
    /\ idx = 1
    /\ race_meta = JNull
    /\ result = NoResult
    /\ MainIdle
    /\ DatabaseIdle

SpecOrder == InitOrder /\ [][Next]_vars

\* the race ids of a category list, in list order
CategoryIds(label) ==
    [i \in 1..Len(categories.d[label]) |-> categories.d[label][i].race_id]

\* C17: within each category list the records are in the order in which the
\* progress map iterates their race ids, not sorted by reporting percentage
\* or key-race flag; so the same feeds in the same order give the same
\* sequence of race ids per category.
C17_CategoryListsInProgressOrder ==
    /\ \A label \in MapKeys(categories) :
          \A i, j \in 1..Len(categories.d[label]) :
              i < j => ProgressIndex(categories.d[label][i].race_id)
                         < ProgressIndex(categories.d[label][j].race_id)
    /\ pc = "done" =>
          \A label \in MapKeys(categories) :
              CategoryIds(label)
                  = KeepOrder(progress_data.k,
                              {id \in Common : ~IsExc(Outcome(id))
                                   /\ category_of(Outcome(id).ret) = label})

\* a category list whose first record reports less and is no key race,
\* while its second record is a key race
C17_Witness ==
    /\ pc = "done"
    /\ \E label \in MapKeys(categories) :
          /\ Len(categories.d[label]) >= 2
          /\ categories.d[label][1].precincts_reporting_pct.n
                 < categories.d[label][2].precincts_reporting_pct.n
          /\ categories.d[label][1].key_race = JBool(FALSE)
          /\ categories.d[label][2].key_race = JBool(TRUE)

-----------------------------------------------------------------------------
(* Frame of the parser: what a call leaves alone.                          *)

\* C18: parse_results (with parse_race, parse_candidate, is_ballot_measure
\* and get_vote_info below it) and categorize_races leave the progress map
\* and the metadata map, nested entries included, as they were before the
\* call, whether or not some race failed.
C18_InputsUnchanged ==
    [][/\ progress_data' = progress_data
       /\ metadata' = metadata
       /\ race_meta' = race_meta]_vars

\* both calls have returned, one race failed and another was stored
C18_Witness ==
    /\ pc = "done"
    /\ \E id \in Common : IsExc(Outcome(id))
    /\ \E id \in Common : ~IsExc(Outcome(id))
    /\ MapKeys(categories) # {}

\* truth value of a fetched JSON value, as `not x` and `x and y` take it
Truthy(v) ==
    CASE v.t = "null" -> FALSE
      [] v.t = "dict" -> Len(v.k) > 0
      [] v.t = "list" -> Len(v.l) > 0
      [] v.t = "str"  -> Len(v.s) > 0
      [] v.t = "num"  -> v.n # 0
      [] v.t = "bool" -> v.b

-----------------------------------------------------------------------------
(* DetailedDataParser: county-level results of one race.                   *)

CountyResult(state_postal, county_name, county_fips, county_id, precincts_reporting, precincts_total, precincts_reporting_pct, expected_vote_pct, total_votes, registered_voters, last_updated, candidate_votes) ==
    [state_postal |-> state_postal, county_name |-> county_name,
     county_fips |-> county_fips, county_id |-> county_id,
     precincts_reporting |-> precincts_reporting,
     precincts_total |-> precincts_total,
     precincts_reporting_pct |-> precincts_reporting_pct,
     expected_vote_pct |-> expected_vote_pct, total_votes |-> total_votes,
     registered_voters |-> registered_voters, last_updated |-> last_updated,
     candidate_votes |-> candidate_votes]

\* key in v, for a literal key
Contains(v, key) ==
    IF IsDict(v) THEN Ret(key \in Keys(v))
    ELSE IF IsList(v) THEN Ret(\E i \in 1..Len(v.l) : v.l[i] = S(key))
    ELSE IF IsStr(v)
    THEN Ret(\E i \in 1..(Len(v.s) + 1 - Len(Chars(key))) :
                 SubSeq(v.s, i, i + Len(Chars(key)) - 1) = Chars(key))
    ELSE Raise("TypeError")

\* one item of the candidate_votes comprehension
candidate_vote(c) ==
    LET parts == <<GetItem(c, "candidateID"), GetItem(c, "voteCount"),
                   GetItem(c, "votePct")>>
    IN  IF HasExc(parts) THEN FirstExc(parts)
        ELSE IF parts[1].ret.t \in {"list", "dict"} THEN Raise("TypeError")
        ELSE Ret([id |-> parts[1].ret,
                  data |-> [votes |-> parts[2].ret, pct |-> parts[3].ret]])

\* {c['candidateID']: {...} for c in county_data['candidates']}
RECURSIVE collect_votes(_, _)
collect_votes(items, acc) ==
    IF Len(items) = 0 THEN Ret(acc)
    ELSE LET item == candidate_vote(items[1])
         IN  IF IsExc(item) THEN item
             ELSE collect_votes(Tail(items), MapPut(acc, item.ret.id, item.ret.data))

candidate_votes_of(county_data) ==
    LET candidates == GetItem(county_data, "candidates")
        items      == IF IsExc(candidates) THEN candidates ELSE Iterate(candidates.ret)
    IN  IF IsExc(items) THEN items ELSE collect_votes(items.ret, EmptyMap)

\* if key not in county_data: county_data[key] = "NA"
set_default(v, key) ==
    IF key \in Keys(v) THEN v
    ELSE [t |-> "dict", k |-> Append(v.k, key),
          d |-> [x \in Keys(v) \cup {key} |-> IF x = key THEN S("NA") ELSE v.d[x]]]

with_sentinels(county_data) ==
    set_default(set_default(set_default(county_data, "reportingunitName"),
                            "fipsCode"), "reportingunitID")

\* sum(c['voteCount'] for c in county_data['candidates'])
RECURSIVE sum_vote_counts(_, _)
sum_vote_counts(items, acc) ==
    IF Len(items) = 0 THEN Ret(JNum(acc))
    ELSE LET count == GetItem(items[1], "voteCount")
         IN  IF IsExc(count) THEN count
             ELSE IF count.ret.t = "num"
             THEN sum_vote_counts(Tail(items), acc + count.ret.n)
             ELSE IF count.ret.t = "bool"
             THEN sum_vote_counts(Tail(items), acc + (IF count.ret.b THEN 1 ELSE 0))
             ELSE Raise("TypeError")

\* variant: a parameters.vote object without a total is summed from the
\* candidates
county_totals_sum_when_missing(county_data) ==
    LET nested == IF "parameters" \in Keys(county_data)
                  THEN Contains(county_data.d["parameters"], "vote")
                  ELSE Ret(FALSE)
    IN  IF IsExc(nested) THEN nested
        ELSE IF nested.ret
        THEN LET vote       == GetItem(county_data.d["parameters"], "vote")
                 total      == IF IsExc(vote) THEN vote
                               ELSE vote_get(vote.ret, "total", JNull)
                 registered == IF IsExc(vote) THEN vote
                               ELSE vote_get(vote.ret, "registered", JNum(0))
                 summed     == sum_vote_counts(Iterate(county_data.d["candidates"]).ret, 0)
             IN  IF IsExc(total) THEN total
                 ELSE IF IsExc(registered) THEN registered
                 ELSE IF total.ret = JNull
                 THEN (IF IsExc(summed) THEN summed
                       ELSE Ret([total_votes |-> summed.ret,
                                 registered_voters |-> registered.ret]))
                 ELSE Ret([total_votes |-> total.ret,
                           registered_voters |-> registered.ret])
        ELSE LET summed == sum_vote_counts(Iterate(county_data.d["candidates"]).ret, 0)
             IN  IF IsExc(summed) THEN summed
                 ELSE Ret([total_votes |-> summed.ret, registered_voters |-> JNum(0)])

\* total_votes and registered_voters of a reporting unit
county_totals(county_data) ==
    LET nested == IF "parameters" \in Keys(county_data)
                  THEN Contains(county_data.d["parameters"], "vote")
                  ELSE Ret(FALSE)
    IN  IF IsExc(nested) THEN nested
        ELSE IF nested.ret
        THEN LET vote       == GetItem(county_data.d["parameters"], "vote")
                 total      == IF IsExc(vote) THEN vote
                               ELSE vote_get(vote.ret, "total", JNum(0))
                 registered == IF IsExc(vote) THEN vote
                               ELSE vote_get(vote.ret, "registered", JNum(0))
             IN  IF IsExc(total) THEN total
                 ELSE IF IsExc(registered) THEN registered
                 ELSE Ret([total_votes |-> total.ret,
                           registered_voters |-> registered.ret])
        ELSE LET summed == sum_vote_counts(Iterate(county_data.d["candidates"]).ret, 0)
             IN  IF IsExc(summed) THEN summed
                 ELSE Ret([total_votes |-> summed.ret, registered_voters |-> JNum(0)])

\* the CountyResult(...) call on the unit after the sentinels were set
county_result_of(after, candidate_votes) ==
    LET totals == county_totals(after)
        fields == <<GetItem(after, "statePostal"),
                    GetItem(after, "reportingunitName"),
                    GetItem(after, "fipsCode"),
                    GetItem(after, "reportingunitID"),
                    GetItem(after, "precinctsReporting"),
                    GetItem(after, "precinctsTotal"),
                    GetItem(after, "precinctsReportingPct")>>
        updated == GetItem(after, "lastUpdated")
        last_updated == IF IsExc(updated) THEN updated ELSE fromisoformat(updated.ret)
    IN  IF IsExc(totals) THEN totals
        ELSE IF HasExc(fields) THEN FirstExc(fields)
        ELSE IF IsExc(last_updated) THEN last_updated
        ELSE Ret(CountyResult(fields[1].ret, fields[2].ret, fields[3].ret,
                              fields[4].ret, fields[5].ret, fields[6].ret,
                              fields[7].ret, dict_get(after, "eevp", JNum(0)),
                              totals.ret.total_votes, totals.ret.registered_voters,
                              last_updated.ret, candidate_votes))

\* the outcome of parse_county_result, and county_data as the call leaves it
parse_county_result(county_data) ==
    LET candidate_votes == candidate_votes_of(county_data)
    IN  IF IsExc(candidate_votes)
        THEN [outcome |-> candidate_votes, county_data |-> county_data]
        ELSE [outcome |-> county_result_of(with_sentinels(county_data), candidate_votes.ret),
              county_data |-> with_sentinels(county_data)]

\* get_detailed_results on what fetch_detailed_data returned
get_detailed_results(detailed_data) ==
    IF ~Truthy(detailed_data) THEN Ret(<<>>)
    ELSE IF ~IsDict(detailed_data) THEN Raise("AttributeError")
    ELSE LET parsed == [i \in 1..Len(detailed_data.k) |->
                           parse_county_result(detailed_data.d[detailed_data.k[i]]).outcome]
         IN  IF HasExc(parsed) THEN FirstExc(parsed)
             ELSE Ret([i \in 1..Len(parsed) |-> parsed[i].ret])

-----------------------------------------------------------------------------
(* formatters.py: the CSV export and the detailed CSV files.               *)

\* key in v, for a key that is itself a JSON value
ContainsV(v, key) ==
    IF IsDict(v) THEN Ret(IsStr(key) /\ \E k \in Keys(v) : Chars(k) = key.s)
    ELSE IF IsList(v) THEN Ret(\E i \in 1..Len(v.l) : v.l[i] = key)
    ELSE IF IsStr(v)
    THEN (IF IsStr(key)
          THEN Ret(\E i \in 1..(Len(v.s) + 1 - Len(key.s)) :
                       SubSeq(v.s, i, i + Len(key.s) - 1) = key.s)
          ELSE Raise("TypeError"))
    ELSE Raise("TypeError")

\* race_id[:4]
year_of(race_id) ==
    SubSeq(Chars(race_id), 1, IF Len(Chars(race_id)) < 4 THEN Len(Chars(race_id)) ELSE 4)

\* os.path.join(data_dir, f'{race_type}_detailed_{year}.csv')
detailed_filename(race_type, race_id) == <<race_type, year_of(race_id)>>

\* the row of one candidate of one reporting unit; no row (an empty
\* sequence) when candidate_meta does not have the candidate
detail_row(race_type, race_id, county_result, cand_id, candidate_meta) ==
    LET known == ContainsV(candidate_meta, cand_id)
        cand  == GetItemV(candidate_meta, cand_id)
        vote_data == county_result.candidate_votes.d[cand_id]
        names == IF race_type = "ballot"
                 THEN <<vote_get(cand.ret, "last", S(""))>>
                 ELSE <<vote_get(cand.ret, "first", S("")),
                        vote_get(cand.ret, "last", S("")),
                        vote_get(cand.ret, "party", S(""))>>
    IN  IF IsExc(known) THEN known
        ELSE IF ~known.ret THEN Ret(<<>>)
        ELSE IF IsExc(cand) THEN cand
        ELSE IF HasExc(names) THEN FirstExc(names)
        ELSE Ret(<<[line |-> "row",
                    race_id |-> race_id,
                    county_id |-> county_result.county_id,
                    last_updated |-> county_result.last_updated,
                    total_votes |-> county_result.total_votes,
                    candidate_id |-> cand_id,
                    names |-> [i \in 1..Len(names) |-> names[i].ret],
                    vote_count |-> vote_data.votes,
                    vote_pct |-> vote_data.pct]>>)

\* the rows of all reporting units, unit by unit and candidate by candidate
detail_rows(race_type, race_id, county_results, candidate_meta) ==
    LET n == Len(county_results)
        ids(i) == county_results[i].candidate_votes.k
        start[i \in 1..(n + 1)] == IF i = 1 THEN 0 ELSE start[i - 1] + Len(ids(i - 1))
        unit(p) == CHOOSE i \in 1..n : start[i] < p /\ p <= start[i + 1]
        made == [p \in 1..start[n + 1] |->
                    detail_row(race_type, race_id, county_results[unit(p)],
                               ids(unit(p))[p - start[unit(p)]], candidate_meta)]
        kept == SelectSeq(made, LAMBDA row : Len(row.ret) = 1)
    IN  IF HasExc(made) THEN FirstExc(made)
        ELSE Ret([i \in 1..Len(kept) |-> kept[i].ret[1]])

HeaderRow(race_type) ==
    [line |-> "header",
     headers |-> IF race_type = "ballot" THEN "BALLOT_HEADERS" ELSE "PERSON_RACE_HEADERS"]

\* variant: the file is opened for writing on every call
write_detailed_results_truncating(written, race_type, race_id, county_results, candidate_meta) ==
    LET filename == detailed_filename(race_type, race_id)
        rows     == detail_rows(race_type, race_id, county_results, candidate_meta)
    IN  IF IsExc(rows) THEN rows
        ELSE Ret(MapPut(written, filename, <<HeaderRow(race_type)>> \o rows.ret))

\* the files after DetailedFormatter.write_detailed_results, or what it raised
write_detailed_results(written, race_type, race_id, county_results, candidate_meta) ==
    LET filename == detailed_filename(race_type, race_id)
        rows     == detail_rows(race_type, race_id, county_results, candidate_meta)
        file_exists == filename \in MapKeys(written)
    IN  IF IsExc(rows) THEN rows
        ELSE IF file_exists
        THEN Ret(MapPut(written, filename, written.d[filename] \o rows.ret))
        ELSE Ret(MapPut(written, filename, <<HeaderRow(race_type)>> \o rows.ret))

\* what CSVFormatter.write_results raises, if anything
csv_write_results(categorized_races) ==
    LET listed == UNION {{categorized_races.d[c][i] : i \in 1..Len(categorized_races.d[c])} :
                            c \in MapKeys(categorized_races)}
    IN  IF listed = {} THEN Raise("ValueError")
        ELSE IF \E race \in listed :
                    /\ race.kind = "BallotMeasure"
                    /\ \E i \in 1..Len(race.candidates) :
                          race.candidates[i].kind # "BallotOptionCandidate"
        THEN Raise("AttributeError")
        ELSE Ret(JNull)

-----------------------------------------------------------------------------
(* The orchestrator: main.py.                                              *)

PresidentialTypes == <<"president", "senate", "governor", "house", "ballot">>
MidtermTypes      == <<"senate", "governor", "house", "ballot">>

ELECTION_DAYS ==
    [year \in {2024, 2020, 2016, 2012, 2008, 2004, 2000,
               2022, 2018, 2014, 2010, 2006, 2002, 1998} |->
        [date  |-> CASE year = 2024 -> "2024-11-05" [] year = 2020 -> "2020-11-03"
                     [] year = 2016 -> "2016-11-08" [] year = 2012 -> "2012-11-06"
                     [] year = 2008 -> "2008-11-04" [] year = 2004 -> "2004-11-02"
                     [] year = 2000 -> "2000-11-07" [] year = 2022 -> "2022-11-08"
                     [] year = 2018 -> "2018-11-06" [] year = 2014 -> "2014-11-04"
                     [] year = 2010 -> "2010-11-02" [] year = 2006 -> "2006-11-07"
                     [] year = 2002 -> "2002-11-05" [] year = 1998 -> "1998-11-03",
         types |-> IF year \in {2024, 2020, 2016, 2012, 2008, 2004, 2000}
                   THEN PresidentialTypes ELSE MidtermTypes]]

\* variant: years before 2018 get the older host instead of an error
get_base_url_any_year(year, date) ==
    IF year >= 2024
    THEN Ret([host |-> "interactives.apelections.org", date |-> date])
    ELSE Ret([host |-> "interactives.ap.org", date |-> date])

get_base_url(year, date) ==
    IF year >= 2024
    THEN Ret([host |-> "interactives.apelections.org", date |-> date])
    ELSE IF year >= 2018
    THEN Ret([host |-> "interactives.ap.org", date |-> date])
    ELSE Raise("ValueError")

\* (is_valid, message) of validate_year, with datetime.now().year as `now`
validate_year(year, now) ==
    IF year \notin DOMAIN ELECTION_DAYS
    THEN [is_valid |-> FALSE, message |-> "is not a valid election year"]
    ELSE IF year > now
    THEN [is_valid |-> FALSE, message |-> "Cannot process future year"]
    ELSE IF year < 1998
    THEN [is_valid |-> FALSE, message |-> "Data before 1998 may not be available"]
    ELSE [is_valid |-> TRUE, message |-> "Valid election year"]

InList(x, list) == \E i \in 1..Len(list) : list[i] = x

\* the condition of the filter comprehension
keeps_category(category, allowed_types) ==
    \/ \E i \in 1..Len(allowed_types) :
          Chars(allowed_types[i]) = str_lower(Chars(category))
    \/ (category = "Ballot Measures" /\ InList("ballot", allowed_types))

\* filtered_races = {category: races for ... if ...}
filter_races(categorized_races, allowed_types) ==
    LET kept == SelectSeq(categorized_races.k,
                          LAMBDA category : keeps_category(category, allowed_types))
    IN  [k |-> kept,
         d |-> [category \in {kept[i] : i \in 1..Len(kept)} |->
                    categorized_races.d[category]]]

\* filtered.get(label, [])
races_of(filtered, label) ==
    IF label \in MapKeys(filtered) THEN filtered.d[label] ELSE <<>>

race_types(filtered) ==
    << <<"president", races_of(filtered, "Presidential")>>,
       <<"senate", races_of(filtered, "Senate")>>,
       <<"governor", races_of(filtered, "Governor")>>,
       <<"ballot", races_of(filtered, "Ballot Measures")>> >>

\* one entry of the log
Event(ev, year, what, ids) == [ev |-> ev, year |-> year, what |-> what, ids |-> ids]

\* for year in args.years: validate_year
main_validate_iter ==
    /\ main_pc = "validate"
    /\ year_idx <= Len(args.years)
    /\ LET year    == args.years[year_idx]
           checked == validate_year(year, current_year)
       IN  IF checked.is_valid
           THEN /\ valid_years' = Append(valid_years, year)
                /\ log' = log
           ELSE /\ valid_years' = valid_years
                /\ log' = Append(log, Event("print", year, checked.message, <<>>))
    /\ year_idx' = year_idx + 1
    /\ UNCHANGED <<progress_data, metadata, races, categories, pc, idx, race_meta, result,
                   args, current_year, main_pc, max_attempts, attempt, filtered_races>>
    /\ UNCHANGED <<detail_vars, db_vars>>

\* if not valid_years: return
main_validate_end ==
    /\ main_pc = "validate"
    /\ year_idx > Len(args.years)
    /\ IF Len(valid_years) = 0
       THEN /\ main_pc' = "end"
            /\ log' = Append(log, Event("print", 0, "No valid election years specified", <<>>))
       ELSE /\ main_pc' = "years"
            /\ log' = log
    /\ year_idx' = 1
    /\ UNCHANGED <<progress_data, metadata, races, categories, pc, idx, race_meta, result,
                   args, current_year, valid_years, max_attempts, attempt, filtered_races>>
    /\ UNCHANGED <<detail_vars, db_vars>>

\* head of the year loop down to the fetch loop
main_year_begin ==
    /\ main_pc = "years"
    /\ year_idx <= Len(valid_years)
    /\ LET year     == valid_years[year_idx]
           base_url == get_base_url(year, ELECTION_DAYS[year].date)
       IN  IF IsExc(base_url)
           THEN /\ log' = log \o <<Event("print", year, "Processing election year", <<>>),
                                   Event("print", year, "Skipping year", <<>>)>>
                /\ year_idx' = year_idx + 1
                /\ UNCHANGED <<progress_data, metadata, main_pc, max_attempts, attempt>>
           ELSE /\ log' = Append(log, Event("print", year, "Processing election year", <<>>))
                /\ max_attempts' = (IF args.retry_failed THEN 3 ELSE 1)
                /\ attempt' = 0
                /\ progress_data' = JNull
                /\ metadata' = JNull
                /\ main_pc' = "fetch"
                /\ year_idx' = year_idx
    /\ UNCHANGED <<races, categories, pc, idx, race_meta, result,
                   args, current_year, valid_years, filtered_races>>
    /\ UNCHANGED <<detail_vars, db_vars>>

\* the year loop is exhausted
main_years_end ==
    /\ main_pc = "years"
    /\ year_idx > Len(valid_years)
    /\ main_pc' = "end"
    /\ UNCHANGED <<progress_data, metadata, races, categories, pc, idx, race_meta, result,
                   args, current_year, valid_years, year_idx, max_attempts, attempt,
                   filtered_races, log>>
    /\ UNCHANGED <<detail_vars, db_vars>>

\* the feeds a fetch can bring
FetchedProgress ==
    Dict(<< <<"r1", ProgressEntry("NC", GoodTime, CandidateList(<<"c1", "c2">>), Eevp)>>,
            <<"r2", ProgressEntry("OH", GoodTime, CandidateList(<<"c2", "c1">>), Eevp)>>,
            <<"r3", ProgressEntry("NC", GoodTime, CandidateList(<<"c1">>), Eevp)>>,
            <<"r4", ProgressEntry("OH", GoodTime, CandidateList(<<"c1", "c2">>), Eevp)>>,
            <<"r5", ProgressEntry("NC", GoodTime, CandidateList(<<"c1", "c2">>), Eevp)>>,
            <<"r6", ProgressEntry("OH", GoodTime, CandidateList(<<"c2">>), Eevp)>> >>)

Office(name, id) ==
    MetadataEntry(<< <<"officeName", S(name)>> >>, << <<"candidates", People>> >>,
                  << <<"officeID", S(id)>> >>)

FetchedMetadata ==
    Dict(<< <<"r1", Office("President", "P")>>,
            <<"r2", Office("U.S. Senate", "S")>>,
            <<"r3", Office("U.S. House", "H")>>,
            <<"r4", Office("Governor", "G")>>,
            <<"r5", MetadataEntry(<< <<"officeName", S("Amendment 4")>> >>,
                                  << <<"candidates", Options>> >>, <<>>)>>,
            <<"r6", Office("Mayor", "M")>> >>)

\* what fetch_election_data returns: (None, None) after an exception,
\* otherwise the two decoded bodies, either of which may be an empty object
fetch_election_data ==
    {<<JNull, JNull>>,
     <<EmptyDict, FetchedMetadata>>,
     <<FetchedProgress, EmptyDict>>,
     <<FetchedProgress, FetchedMetadata>>}

\* variant: the loop goes on until the attempts are used up
another_attempt_always(made, allowed, progress, meta) ==
    made < allowed

\* while attempt < max_attempts and not (progress_data and metadata)
another_attempt(made, allowed, progress, meta) ==
    made < allowed /\ ~(Truthy(progress) /\ Truthy(meta))

\* one round of the fetch loop
main_fetch_attempt ==
    /\ main_pc = "fetch"
    /\ another_attempt(attempt, max_attempts, progress_data, metadata)
    /\ LET year == valid_years[year_idx]
       IN  /\ \E fetched \in fetch_election_data :
                 /\ progress_data' = fetched[1]
                 /\ metadata' = fetched[2]
           /\ log' = log
                     \o (IF attempt > 0
                         THEN <<Event("print", year, "Retry attempt", <<>>)>> ELSE <<>>)
                     \o <<Event("fetch_election_data", year,
                                get_base_url(year, ELECTION_DAYS[year].date).ret.host, <<>>)>>
    /\ attempt' = attempt + 1
    /\ UNCHANGED <<races, categories, pc, idx, race_meta, result,
                   args, current_year, valid_years, main_pc, year_idx, max_attempts,
                   filtered_races>>
    /\ UNCHANGED <<detail_vars, db_vars>>

\* after the fetch loop: skip the year, or start parse_results
main_fetch_end ==
    /\ main_pc = "fetch"
    /\ ~another_attempt(attempt, max_attempts, progress_data, metadata)
    /\ LET year == valid_years[year_idx]
       IN  IF ~Truthy(progress_data) \/ ~Truthy(metadata)
           THEN /\ log' = Append(log, Event("print", year,
                                            "Skipping year due to data fetch error", <<>>))
                /\ main_pc' = "years"
                /\ year_idx' = year_idx + 1
                /\ UNCHANGED <<races, categories, pc, idx>>
           ELSE /\ log' = Append(log, Event("parse_results", year, "", <<>>))
                /\ main_pc' = "parsing"
                /\ year_idx' = year_idx
                /\ races' = EmptyMap
                /\ categories' = EmptyMap
                /\ pc' = "parse"
                /\ idx' = 1
    /\ UNCHANGED <<progress_data, metadata, race_meta, result,
                   args, current_year, valid_years, max_attempts, attempt, filtered_races>>
    /\ UNCHANGED <<detail_vars, db_vars>>

\* the year-type filter on what categorize_races returned
main_filter ==
    /\ main_pc = "parsing"
    /\ pc = "done"
    /\ filtered_races' = filter_races(categories, ELECTION_DAYS[valid_years[year_idx]].types)
    /\ main_pc' = "output"
    /\ UNCHANGED <<progress_data, metadata, races, categories, pc, idx, race_meta, result,
                   args, current_year, valid_years, year_idx, max_attempts, attempt, log>>
    /\ UNCHANGED <<detail_vars, db_vars>>

\* console output, and with --save the CSV export; then the detail loop
main_output ==
    /\ main_pc = "output"
    /\ LET year     == valid_years[year_idx]
           shown    == Event("ConsoleFormatter.write_results", year, "", filtered_races.k)
           exported == csv_write_results(filtered_races)
       IN  IF ~args.save
           THEN /\ log' = Append(log, shown)
                /\ main_pc' = "years"
                /\ year_idx' = year_idx + 1
           ELSE IF IsExc(exported)
           THEN /\ log' = log \o <<shown, Event("raise", year, exported.exc, <<>>)>>
                /\ main_pc' = "crashed"
                /\ year_idx' = year_idx
           ELSE /\ log' = log \o <<shown, Event("CSVFormatter.write_results", year, "",
                                                filtered_races.k)>>
                /\ main_pc' = "detail"
                /\ year_idx' = year_idx
    /\ type_idx' = 1
    /\ race_idx' = 1
    /\ UNCHANGED <<progress_data, metadata, races, categories, pc, idx, race_meta, result,
                   args, current_year, valid_years, max_attempts, attempt, filtered_races,
                   files, county_entry, db_vars>>

\* a reporting unit as detail.json carries it
ReportingUnit(state, updated, candidates, extra) ==
    << <<"statePostal", S(state)>>, <<"lastUpdated", updated>>,
       <<"precinctsReporting", JNum(3)>>, <<"precinctsTotal", JNum(4)>>,
       <<"precinctsReportingPct", JNum(75)>>, <<"candidates", candidates>> >> \o extra

Named == << <<"reportingunitName", S("Wake")>>, <<"fipsCode", S("37183")>>,
            <<"reportingunitID", S("37092")>> >>

\* the pairs without the one of the given key
Without(pairs, key) == SelectSeq(pairs, LAMBDA pair : pair[1] # key)

GoodUnit == ReportingUnit("NC", GoodTime, CandidateList(<<"c1", "c2">>), Named)

\* what fetch_detailed_data returns: None after an HTTP failure or a body
\* that is no JSON, otherwise the decoded body
fetch_detailed_data ==
    {JNull,
     EmptyDict,
     Dict(<< <<"u1", Dict(GoodUnit)>> >>),
     Dict(<< <<"u1", Dict(GoodUnit)>>, <<"u2", Dict(Without(GoodUnit, "statePostal"))>> >>),
     Dict(<< <<"u1", Dict(Without(GoodUnit, "lastUpdated"))>> >>),
     Dict(<< <<"u1", Dict(Without(GoodUnit, "candidates"))>> >>)}

\* what the call of get_detailed_results in the detail loop gives main
detail_outcome(detailed_data) == get_detailed_results(detailed_data)

\* if county_results: write_detailed_results(race_type, race.race_id,
\* county_results, metadata[race.race_id]['candidates'], year_dir)
detail_written(written, race_type, race_id, county_results, race_metadata) ==
    IF Len(county_results) = 0 THEN Ret(written)
    ELSE IF IsExc(GetItem(race_metadata, "candidates"))
    THEN GetItem(race_metadata, "candidates")
    ELSE write_detailed_results(written, race_type, race_id, county_results,
                                race_metadata.d["candidates"])

\* one round of the detail loop: the next race of the current race type,
\* or the step to the next race type
main_detail_iter ==
    /\ main_pc = "detail"
    /\ type_idx <= Len(race_types(filtered_races))
    /\ LET year      == valid_years[year_idx]
           race_type == race_types(filtered_races)[type_idx][1]
           listed    == race_types(filtered_races)[type_idx][2]
       IN  IF race_idx > Len(listed)
           THEN /\ type_idx' = type_idx + 1
                /\ race_idx' = 1
                /\ UNCHANGED <<main_pc, log, files>>
           ELSE LET race == listed[race_idx]
                    called == Event("get_detailed_results", year, race_type, <<race.race_id>>)
                IN  \E detailed_data \in fetch_detailed_data :
                    \E county_results \in {detail_outcome(detailed_data)} :
                    \E written \in {IF IsExc(county_results) THEN county_results
                                    ELSE detail_written(files, race_type, race.race_id,
                                                        county_results.ret,
                                                        metadata.d[race.race_id])} :
                          IF IsExc(county_results)
                          THEN /\ log' = log \o <<called, Event("raise", year,
                                                                county_results.exc, <<>>)>>
                               /\ main_pc' = "crashed"
                               /\ UNCHANGED <<type_idx, race_idx, files>>
                          ELSE IF Len(county_results.ret) = 0
                          THEN /\ log' = Append(log, called)
                               /\ race_idx' = race_idx + 1
                               /\ UNCHANGED <<main_pc, type_idx, files>>
                          ELSE IF IsExc(written)
                          THEN /\ log' = log \o <<called, Event("raise", year,
                                                                written.exc, <<>>)>>
                               /\ main_pc' = "crashed"
                               /\ UNCHANGED <<type_idx, race_idx, files>>
                          ELSE /\ log' = log \o <<called,
                                                  Event("write_detailed_results", year,
                                                        race_type, <<race.race_id>>)>>
                               /\ files' = written.ret
                               /\ race_idx' = race_idx + 1
                               /\ UNCHANGED <<main_pc, type_idx>>
    /\ UNCHANGED <<progress_data, metadata, races, categories, pc, idx, race_meta, result,
                   args, current_year, valid_years, year_idx, max_attempts, attempt,
                   filtered_races, county_entry, db_vars>>

\* every race type has been dealt with: on to the next year
main_detail_end ==
    /\ main_pc = "detail"
    /\ type_idx > Len(race_types(filtered_races))
    /\ main_pc' = "years"
    /\ year_idx' = year_idx + 1
    /\ UNCHANGED <<progress_data, metadata, races, categories, pc, idx, race_meta, result,
                   args, current_year, valid_years, max_attempts, attempt,
                   filtered_races, log>>
    /\ UNCHANGED <<detail_vars, db_vars>>

NextMain ==
    \/ main_validate_iter
    \/ main_validate_end
    \/ main_year_begin
    \/ main_years_end
    \/ main_fetch_attempt
    \/ main_fetch_end
    \/ parse_results_iter
    \/ parse_results_return
    \/ categorize_races_iter
    \/ categorize_races_return
    \/ main_filter
    \/ main_output
    \/ main_detail_iter
    \/ main_detail_end

\* years a command line may name: before 2018, midterm, presidential, and
\* one without an election
YearChoices == {2016, 2022, 2023, 2024}

RequestedYears == UNION {[1..n -> YearChoices] : n \in 1..MaxYears}

InitMain ==
    /\ BatchIdle
    /\ race_meta = JNull
    /\ result = NoResult
    /\ args \in {a \in [years : RequestedYears, retry_failed : BOOLEAN, save : BOOLEAN] :
                    a.save => Len(a.years) <= MaxSavedYears}
    /\ current_year \in {2022, 2026}
    /\ valid_years = <<>>
    /\ main_pc = "validate"
    /\ year_idx = 1
    /\ max_attempts = 1
    /\ attempt = 0
    /\ filtered_races = EmptyMap
    /\ log = <<>>
    /\ type_idx = 1
    /\ race_idx = 1
    /\ files = EmptyMap
    /\ county_entry = JNull
    /\ DatabaseIdle

SpecMain == InitMain /\ [][NextMain]_vars

\* the steps of NextMain other than the iteration of parse_results
MainStep ==
    \/ main_validate_iter
    \/ main_validate_end
    \/ main_year_begin
    \/ main_years_end
    \/ main_fetch_attempt
    \/ main_fetch_end
    \/ parse_results_return
    \/ categorize_races_iter
    \/ categorize_races_return
    \/ main_filter
    \/ main_output
    \/ main_detail_iter
    \/ main_detail_end

\* WF_vars(parse_results_iter) written out: the iteration can be taken
\* exactly while the loop has a key left, and taking it moves idx on
ParseLoopFair ==
    \/ []<>~(pc = "parse" /\ idx <= Len(progress_data.k))
    \/ []<><<pc = "parse" /\ idx' = idx + 1>>_vars

\* main is one sequential thread and every fetch has a 30 second timeout,
\* so a step that can be taken is taken
SpecMainLive == SpecMain /\ WF_vars(MainStep) /\ ParseLoopFair

-----------------------------------------------------------------------------
(* Properties of the orchestrator.                                         *)

\* the year the year loop is at
Year == valid_years[year_idx]

\* the type a category label stands for in ELECTION_DAYS
TypeOfCategory ==
    [label \in {"Presidential", "Senate", "House", "Governor", "Ballot Measures"} |->
        CASE label = "Presidential" -> "president"
          [] label = "Senate" -> "senate"
          [] label = "House" -> "house"
          [] label = "Governor" -> "governor"
          [] label = "Ballot Measures" -> "ballot"]

\* C19: for a year whose type list has "president" the "Presidential"
\* category of categorize_races is kept by the year-type filter, and so
\* is handed to the console output and the detail loop; likewise "Senate",
\* "House", "Governor" and "Ballot Measures" when their types are listed.
C19_ListedTypesKept ==
    main_pc = "output" =>
        \A label \in DOMAIN TypeOfCategory :
            (/\ InList(TypeOfCategory[label], ELECTION_DAYS[Year].types)
             /\ label \in MapKeys(categories))
            => /\ label \in MapKeys(filtered_races)
               /\ filtered_races.d[label] = categories.d[label]
               /\ label # "House" =>
                     \E i \in 1..4 :
                         race_types(filtered_races)[i]
                             = <<TypeOfCategory[label], categories.d[label]>>

\* number of fetch_election_data calls in a stretch of the log
FetchCalls(events) ==
    Cardinality({i \in 1..Len(events) : events[i].ev = "fetch_election_data"})

\* the log since the year loop last began a year
ThisYear ==
    LET begins == {i \in 1..Len(log) : /\ log[i].ev = "print"
                                       /\ log[i].what = "Processing election year"}
        last   == IF begins = {} THEN 0
                  ELSE CHOOSE i \in begins : \A j \in begins : j <= i
    IN  SubSeq(log, last + 1, Len(log))

BothFetched == Truthy(progress_data) /\ Truthy(metadata)

YearSkipped ==
    /\ Len(log) > 0
    /\ log[Len(log)].what = "Skipping year due to data fetch error"

\* calls made for the year, in every state of and after the fetch loop
C20_Calls ==
    /\ main_pc = "fetch" =>
          /\ max_attempts = (IF args.retry_failed THEN 3 ELSE 1)
          /\ FetchCalls(ThisYear) = attempt
          /\ attempt <= max_attempts
    /\ main_pc \in {"parsing", "output"} =>
          /\ FetchCalls(ThisYear) >= 1
          /\ FetchCalls(ThisYear) <= max_attempts
          /\ BothFetched
    /\ YearSkipped =>
          /\ FetchCalls(ThisYear) >= 1
          /\ FetchCalls(ThisYear) = max_attempts
          /\ ~BothFetched
          /\ main_pc \in {"years", "end"}

\* what a step of main may do around the fetch loop
C20_Step ==
    /\ (main_pc = "fetch" /\ BothFetched) =>
          /\ FetchCalls(log') = FetchCalls(log)
          /\ main_pc' = "parsing"
    /\ (main_pc = "fetch" /\ main_pc' = "years") =>
          /\ ~BothFetched
          /\ year_idx' = year_idx + 1
    /\ (main_pc # "parsing" /\ main_pc' = "parsing") =>
          /\ main_pc = "fetch"
          /\ BothFetched

\* C20: per processed year the fetch loop calls fetch_election_data at
\* least once and at most max_attempts times (3 with --retry-failed, 1
\* without), never again after an attempt that brought both feeds
\* non-empty, and the loop always ends and main comes to a stop; the year is parsed only
\* when both feeds came non-empty, otherwise it is skipped and the loop
\* goes on to the next year.
C20_FetchLoopBounded ==
    /\ []C20_Calls
    /\ [][C20_Step]_vars
    /\ (main_pc = "fetch") ~> (main_pc # "fetch")
    /\ <>(main_pc \in {"end", "crashed"})

\* with --retry-failed the second attempt brought both feeds, and the year
\* is parsed without a third call
C20_Witness ==
    /\ main_pc = "parsing"
    /\ max_attempts = 3
    /\ FetchCalls(ThisYear) = 2
    /\ BothFetched

\* how often a year is named on the command line
Requested(year) == Cardinality({i \in 1..Len(args.years) : args.years[i] = year})

\* the entries of the log that are about a year and satisfy a condition
Logged(year, ev, messages) ==
    Cardinality({i \in 1..Len(log) : /\ log[i].year = year
                                     /\ log[i].ev = ev
                                     /\ log[i].what \in messages})

Hosts == {"interactives.apelections.org", "interactives.ap.org"}

Refusals == {"is not a valid election year", "Cannot process future year",
             "Data before 1998 may not be available", "Skipping year"}

Fetchable(year) ==
    /\ year \in DOMAIN ELECTION_DAYS
    /\ year <= current_year
    /\ year >= 2018

\* C21: a requested year is fetched only if it is a key of ELECTION_DAYS,
\* not later than the current year and at least 2018; every other
\* requested year is reported and skipped without a fetch, and the years
\* after it are still processed.
C21_OnlyFetchableYearsFetched ==
    /\ \A i \in 1..Len(log) :
          log[i].ev = "fetch_election_data" =>
              /\ Fetchable(log[i].year)
              /\ Requested(log[i].year) > 0
    /\ main_pc = "end" =>
          \A year \in YearChoices :
              IF Fetchable(year)
              THEN /\ Logged(year, "print", {"Processing election year"}) = Requested(year)
                   /\ Logged(year, "fetch_election_data", Hosts) >= Requested(year)
                   /\ Logged(year, "print", Refusals) = 0
              ELSE /\ Logged(year, "fetch_election_data", Hosts) = 0
                   /\ Logged(year, "print", Refusals) = Requested(year)

\* a year before 2018 that validate_year accepted was skipped, and the
\* year named after it was fetched
C21_Witness ==
    /\ main_pc = "end"
    /\ Len(args.years) >= 2
    /\ args.years[1] = 2016
    /\ Logged(2016, "print", {"Skipping year"}) = 1
    /\ Fetchable(args.years[2])
    /\ Logged(args.years[2], "fetch_election_data", Hosts) >= 1

-----------------------------------------------------------------------------
(* Records and the candidate types models.py declares for them.            *)

\* C22: every record parse_race produced has candidates of its own
\* variant: a BallotMeasure only BallotOptionCandidate, an ElectionRace
\* only PersonCandidate.
C22_CandidatesMatchVariant ==
    \A id \in MapKeys(races) :
        \A i \in 1..Len(races.d[id].candidates) :
            races.d[id].candidates[i].kind
                = (IF races.d[id].kind = "BallotMeasure"
                   THEN "BallotOptionCandidate" ELSE "PersonCandidate")

-----------------------------------------------------------------------------
(* The detail loop of main.                                                *)

\* C23: get_detailed_results never raises to main, whatever the detail
\* fetch brought (a failure, an empty object, or a reporting unit that
\* lacks statePostal, lastUpdated or candidates), so that one race's
\* detail data never stops the races after it.
C23_DetailNeverRaises ==
    \A i \in 2..Len(log) :
        log[i - 1].ev = "get_detailed_results" => log[i].ev # "raise"

-----------------------------------------------------------------------------
(* Races with and without officeID.                                        *)

OfficeProgress ==
    {ProgressEntry("NC", GoodTime, CandidateList(<<"c1", "c2">>), Eevp),
     ProgressEntry("NC", GoodTime, CandidateList(<<"c1", "c9">>), Eevp)}

OfficeMetadata ==
    {MetadataEntry(<< <<"officeName", S("Governor")>> >>,
                   << <<"candidates", People>> >>, << <<"officeID", S("G")>> >>),
     MetadataEntry(<< <<"officeName", S("Governor")>> >>,
                   << <<"candidates", People>> >>, <<>>),
     MetadataEntry(<< <<"officeName", S("Amendment 4")>> >>,
                   << <<"candidates", Options>> >>, << <<"officeID", S("I")>> >>),
     MetadataEntry(<< <<"officeName", S("Amendment 4")>> >>,
                   << <<"candidates", Options>> >>, <<>>)}

InitOffice ==
    /\ progress_data \in FeedsInOrder(Arrangements(RaceIds, MaxRaces), OfficeProgress)
    /\ metadata \in FeedsInOrder(FeedOrder, OfficeMetadata)
    /\ races = EmptyMap
    /\ categories = EmptyMap
    /\ pc = "parse"
    /\ idx = 1
    /\ race_meta = JNull
    /\ result = NoResult
    /\ MainIdle
    /\ DatabaseIdle

SpecOffice == InitOffice /\ [][Next]_vars

\* the race's metadata is classified as a ballot measure
Measure(id) == is_ballot_measure(metadata.d[id]).ret
LacksOfficeID(id) == "officeID" \notin Keys(metadata.d[id])

\* C24: of the races of both feeds that parse_results has dealt with, one
\* with an unresolved candidate is not emitted, whatever its variant; one
\* whose candidates resolve and that is a ballot measure is emitted as a
\* BallotMeasure with or without officeID; one whose candidates resolve and
\* that is not a ballot measure is emitted as an ElectionRace when it has an
\* officeID and is not emitted when it lacks one. Each race follows its own
\* rule, so a race that is skipped takes no other race with it.
C24_OfficeIDNeededByCandidateRaces ==
    \A id \in Visited \cap Common :
        IF id \in Unresolved THEN id \notin MapKeys(races)
        ELSE IF Measure(id)
             THEN id \in MapKeys(races) /\ races.d[id].kind = "BallotMeasure"
        ELSE IF LacksOfficeID(id) THEN id \notin MapKeys(races)
        ELSE id \in MapKeys(races) /\ races.d[id].kind = "ElectionRace"

\* the batch finished: a candidate race without officeID was skipped before
\* a ballot measure without officeID was emitted, and a ballot measure with
\* an unresolved candidate was skipped
C24_Witness ==
    /\ pc = "done"
    /\ \E skipped \in Common \ MapKeys(races), id \in MapKeys(races) :
          /\ skipped \notin Unresolved
          /\ ~Measure(skipped) /\ LacksOfficeID(skipped)
          /\ Measure(id) /\ LacksOfficeID(id)
          /\ ProgressIndex(skipped) < ProgressIndex(id)

-----------------------------------------------------------------------------
(* One race whose parameters may be of any type and whose vote objects may *)
(* lack fields.                                                            *)

ContainerMetadata ==
    {MetadataEntry(<< <<"officeName", S("Governor")>>, <<"candidates", People>>,
                      <<"officeID", S("G")>> >>,
                   parameters \o vote, <<>>) :
        parameters \in Optional("parameters",
            WrongTyped \cup {EmptyDict}
            \cup {Dict(<< <<"vote", v>> >>) : v \in NestedVotes \cup {JNull}}),
        vote \in Optional("vote", TopVotes \cup {JNull})}

InitContainers ==
    /\ progress_data \in {One("r1", e) : e \in FieldsProgress}
    /\ metadata \in {One("r1", e) : e \in ContainerMetadata}
    /\ races = EmptyMap
    /\ categories = EmptyMap
    /\ pc = "parse"
    /\ idx = 1
    /\ race_meta = JNull
    /\ result = NoResult
    /\ MainIdle
    /\ DatabaseIdle

SpecContainers == InitContainers /\ [][Next]_vars

\* data['parameters']['vote'] can be indexed
NestedIndexable(meta) ==
    /\ "parameters" \in Keys(meta) /\ IsDict(meta.d["parameters"])
    /\ "vote" \in Keys(meta.d["parameters"])

FieldOrZero(vote, field) == IF field \in Keys(vote) THEN vote.d[field] ELSE JNum(0)

\* what the top-level vote object alone gives
FromTopVote(meta, field) ==
    IF HasTopVote(meta) THEN FieldOrZero(meta.d["vote"], field) ELSE JNum(0)

\* C25: the fallback of get_vote_info is per container: a race whose metadata
\* has a parameters.vote object is reconciled with total_votes and
\* registered_voters read from that object alone, 0 for a field the object
\* lacks whatever the top-level vote object says; the top-level vote object
\* decides only when parameters or parameters.vote is absent or parameters
\* cannot be indexed.
C25_FallbackPerContainer ==
    /\ \A id \in Visited \cap Common :
          LET meta == metadata.d[id] IN
          (NestedIndexable(meta) /\ IsDict(meta.d["parameters"].d["vote"])) =>
              id \in MapKeys(races)
    /\ \A id \in MapKeys(races) :
          LET meta == metadata.d[id] IN
          IF NestedIndexable(meta)
          THEN LET vote == meta.d["parameters"].d["vote"]
               IN  /\ races.d[id].total_votes = FieldOrZero(vote, "total")
                   /\ races.d[id].registered_voters = FieldOrZero(vote, "registered")
          ELSE /\ races.d[id].total_votes = FromTopVote(meta, "total")
               /\ races.d[id].registered_voters = FromTopVote(meta, "registered")

\* a record has total 0 and registered 9: parameters.vote has registered
\* only, and the top-level vote object has total 7
C25_Witness ==
    \E id \in MapKeys(races) :
        /\ races.d[id].total_votes = JNum(0)
        /\ races.d[id].registered_voters = JNum(9)
        /\ NestedIndexable(metadata.d[id])
        /\ HasTopVote(metadata.d[id])
        /\ IsDict(metadata.d[id].d["vote"])
        /\ dict_get(metadata.d[id].d["vote"], "total", JNull) = JNum(7)

-----------------------------------------------------------------------------
(* DetailedDataParser.parse_county_result, one call on one reporting unit. *)

parse_county_result_call ==
    /\ result = NoResult
    /\ \E call \in {parse_county_result(county_entry)} :
          /\ result' = call.outcome
          /\ county_entry' = call.county_data
    /\ UNCHANGED <<progress_data, metadata, races, categories, pc, idx, race_meta,
                   main_vars, type_idx, race_idx, files, db_vars>>

NextCounty == parse_county_result_call

CountyVotes ==
    {VoteObject(total, registered) :
        total \in Optional("total", {JNum(640)}),
        registered \in Optional("registered", {JNum(900)})}

CountyCandidates ==
    {CandidateList(<<>>), CandidateList(<<"c1">>), CandidateList(<<"c1", "c2">>),
     CandidateList(<<"c2", "c3">>)}

CountyUnits ==
    {Dict(ReportingUnit("NC", GoodTime, candidates,
                        name \o fips \o id \o parameters)) :
        candidates \in CountyCandidates,
        name \in Optional("reportingunitName", {S("Wake")}),
        fips \in Optional("fipsCode", {S("37183")}),
        id \in Optional("reportingunitID", {S("37092")}),
        parameters \in Optional("parameters",
            {EmptyDict} \cup {Dict(<< <<"vote", v>> >>) : v \in CountyVotes})}

InitCounty ==
    /\ BatchIdle
    /\ race_meta = JNull
    /\ result = NoResult
    /\ args = [years |-> <<>>, retry_failed |-> FALSE, save |-> FALSE]
    /\ current_year = 0
    /\ valid_years = <<>>
    /\ main_pc = "idle"
    /\ year_idx = 1
    /\ max_attempts = 1
    /\ attempt = 0
    /\ filtered_races = EmptyMap
    /\ log = <<>>
    /\ type_idx = 1
    /\ race_idx = 1
    /\ files = EmptyMap
    /\ county_entry \in CountyUnits
    /\ DatabaseIdle

SpecCounty == InitCounty /\ [][NextCounty]_vars

\* the unit has a parameters.vote object
HasCountyVote(unit) ==
    /\ "parameters" \in Keys(unit)
    /\ "vote" \in Keys(unit.d["parameters"])

\* the sum of voteCount over the first n candidates of the unit
RECURSIVE VoteCountSum(_, _)
VoteCountSum(unit, n) ==
    IF n = 0 THEN 0
    ELSE VoteCountSum(unit, n - 1) + unit.d["candidates"].l[n].d["voteCount"].n

SentinelOr(unit, key) == IF key \in Keys(unit) THEN unit.d[key] ELSE S("NA")

\* what the claim says of the CountyResult made from a unit
TotalsAsStated(unit, county_result) ==
    /\ IF HasCountyVote(unit)
       THEN LET vote == unit.d["parameters"].d["vote"]
            IN  /\ county_result.total_votes = FieldOrZero(vote, "total")
                /\ county_result.registered_voters = FieldOrZero(vote, "registered")
       ELSE /\ county_result.total_votes
                   = JNum(VoteCountSum(unit, Len(unit.d["candidates"].l)))
            /\ county_result.registered_voters = JNum(0)
    /\ county_result.county_name = SentinelOr(unit, "reportingunitName")
    /\ county_result.county_fips = SentinelOr(unit, "fipsCode")
    /\ county_result.county_id = SentinelOr(unit, "reportingunitID")

\* C26: a call of parse_county_result on a reporting unit returns a
\* CountyResult whose total_votes and registered_voters are the total and
\* registered fields of the unit's parameters.vote object, 0 for a field the
\* object lacks, when the unit has such an object; otherwise total_votes is
\* the sum of voteCount over the unit's candidates and registered_voters is
\* 0. A missing reportingunitName, fipsCode or reportingunitID gives "NA".
C26_CountyTotals ==
    [][parse_county_result_call =>
          /\ ~IsExc(result')
          /\ TotalsAsStated(county_entry, result'.ret)]_vars

\* the result of a call on a unit without parameters.vote and without a
\* county name: the summed total 182, no registered voters, the sentinel for
\* the name and the unit's own FIPS code
C26_Witness ==
    /\ result # NoResult /\ ~IsExc(result)
    /\ ~HasCountyVote(county_entry)
    /\ result.ret.total_votes = JNum(182)
    /\ result.ret.registered_voters = JNum(0)
    /\ result.ret.county_name = S("NA")
    /\ result.ret.county_fips = S("37183")

-----------------------------------------------------------------------------
(* ConsoleFormatter.write_results                                          *)

\* the races one category may list in the console runs
MaxListed == 6

\* the [:5] of write_results
SummariesShown == 5

\* one written line
Line(line, category, n, race_id, show_description) ==
    [line |-> line, category |-> category, n |-> n, race_id |-> race_id,
     show_description |-> show_description]

\* variant: the key-race flag is no part of the sort key
race_before_by_pct(a, b) == -a.precincts_reporting_pct.n < -b.precincts_reporting_pct.n

\* (not a.key_race, -a.precincts_reporting_pct)
\*     < (not b.key_race, -b.precincts_reporting_pct)
race_before(a, b) ==
    LET a_not_key == ~Truthy(a.key_race)
        b_not_key == ~Truthy(b.key_race)
    IN  \/ ~a_not_key /\ b_not_key
        \/ /\ a_not_key = b_not_key
           /\ -a.precincts_reporting_pct.n < -b.precincts_reporting_pct.n

\* sorted(race_list, key=...): stable, a new list
RECURSIVE insert_sorted(_, _)
insert_sorted(sorted_races, race) ==
    IF Len(sorted_races) = 0 THEN <<race>>
    ELSE IF race_before(race, Head(sorted_races)) THEN <<race>> \o sorted_races
    ELSE <<Head(sorted_races)>> \o insert_sorted(Tail(sorted_races), race)

RECURSIVE sorted(_)
sorted(race_list) ==
    IF Len(race_list) = 0 THEN <<>>
    ELSE insert_sorted(sorted(SubSeq(race_list, 1, Len(race_list) - 1)),
                       race_list[Len(race_list)])

\* the lines of one category of the second loop
category_lines(category, race_list) ==
    LET sorted_races == sorted(race_list)
        shown == IF Len(sorted_races) > SummariesShown THEN SummariesShown
                 ELSE Len(sorted_races)
        summaries ==
            [j \in 1..(2 * shown) |->
                IF j % 2 = 1
                THEN Line("summary", "", 0, sorted_races[(j + 1) \div 2].race_id,
                          category = "Ballot Measures")
                ELSE Line("rule", "", 0, "", FALSE)]
    IN  <<Line("category", category, 0, "", FALSE)>> \o summaries
        \o (IF Len(sorted_races) > SummariesShown
            THEN <<Line("more", category, Len(sorted_races) - SummariesShown, "", FALSE)>>
            ELSE <<>>)

RECURSIVE total_races(_, _)
total_races(categorized_races, n) ==
    IF n = 0 THEN 0
    ELSE total_races(categorized_races, n - 1)
         + Len(categorized_races.d[categorized_races.k[n]])

RECURSIVE all_category_lines(_, _)
all_category_lines(categorized_races, n) ==
    IF n = 0 THEN <<>>
    ELSE all_category_lines(categorized_races, n - 1)
         \o category_lines(categorized_races.k[n],
                           categorized_races.d[categorized_races.k[n]])

\* the lines written, and categorized_races as the call leaves it
console_write_results(categorized_races) ==
    LET labels == categorized_races.k
        unsortable ==
            \E i \in 1..Len(labels) :
                \E j \in 1..Len(categorized_races.d[labels[i]]) :
                    categorized_races.d[labels[i]][j].precincts_reporting_pct.t
                        \notin {"num", "bool"}
        counts == [i \in 1..Len(labels) |->
                      Line("count", labels[i], Len(categorized_races.d[labels[i]]),
                           "", FALSE)]
    IN  [outcome |->
             IF unsortable THEN Raise("TypeError")
             ELSE Ret(<<Line("title", "", 0, "", FALSE),
                        Line("total", "", total_races(categorized_races, Len(labels)),
                             "", FALSE)>>
                      \o counts
                      \o all_category_lines(categorized_races, Len(labels))),
         categorized_races |-> categorized_races]

console_write_results_call ==
    /\ result = NoResult
    /\ \E call \in {console_write_results(categories)} :
          /\ result' = call.outcome
          /\ categories' = call.categorized_races
    /\ UNCHANGED <<progress_data, metadata, races, pc, idx, race_meta,
                   main_vars, detail_vars, db_vars>>

NextConsole == console_write_results_call

ConsoleIds == <<"r1", "r2", "r3", "r4", "r5", "r6", "r7", "r8">>

ConsoleBase(race_id, office_name, key_race, pct) ==
    [race_id |-> race_id, state_postal |-> S("NC"),
     state_name |-> S("North Carolina"), race_type |-> S("General"),
     race_call_status |-> S("Too Early to Call"), office_name |-> S(office_name),
     last_updated |-> fromisoformat(GoodTime).ret,
     precincts_reporting |-> JNum(3), precincts_total |-> JNum(4),
     precincts_reporting_pct |-> JNum(pct), expected_vote_pct |-> JNum(60),
     total_votes |-> JNum(0), registered_voters |-> JNum(0),
     key_race |-> JBool(key_race)]

GovernorRace(race_id, key_race, pct) ==
    ElectionRace(ConsoleBase(race_id, "Governor", key_race, pct), S("G"), <<>>,
                 JNull, JNull, JNull)

MeasureRace(race_id, key_race, pct) ==
    BallotMeasure(ConsoleBase(race_id, "Amendment 4", key_race, pct),
                  S("Amendment 4"), S("Uncategorized"), S(""), S(""), <<>>)

\* the reporting percentages of the listed races, by position: rising and
\* falling runs, and ties
ReportingPcts ==
    {<<25, 75, 75, 25, 50, 25, 75, 50>>, <<75, 25, 50, 75, 25, 25, 75, 50>>}

\* lists of one to MaxListed Governor races, each a key race or not
GovernorLists ==
    UNION {{[i \in 1..n |-> GovernorRace(ConsoleIds[i], key[i], pcts[i])] :
               key \in [1..n -> BOOLEAN], pcts \in ReportingPcts} : n \in 1..MaxListed}

MeasureLists ==
    {<<>>, <<MeasureRace("m1", FALSE, 50), MeasureRace("m2", TRUE, 50)>>}

ConsoleInputs ==
    {IF Len(measures) = 0 THEN MapPut(EmptyMap, "Governor", governors)
     ELSE MapPut(MapPut(EmptyMap, "Governor", governors), "Ballot Measures", measures) :
        governors \in GovernorLists, measures \in MeasureLists}

InitConsole ==
    /\ progress_data = EmptyDict
    /\ metadata = EmptyDict
    /\ races = EmptyMap
    /\ categories \in ConsoleInputs
    /\ pc = "done"
    /\ idx = 1
    /\ race_meta = JNull
    /\ result = NoResult
    /\ MainIdle
    /\ DatabaseIdle

SpecConsole == InitConsole /\ [][NextConsole]_vars

\* the lines between the header of a category and the next header
HeaderIndex(out, category) ==
    CHOOSE i \in 1..Len(out) : out[i].line = "category" /\ out[i].category = category
SectionEnd(out, i) ==
    IF \E j \in (i + 1)..Len(out) : out[j].line = "category"
    THEN CHOOSE j \in (i + 1)..Len(out) :
             /\ out[j].line = "category"
             /\ \A m \in (i + 1)..(j - 1) : out[m].line # "category"
    ELSE Len(out) + 1
SectionLines(out, category) ==
    SubSeq(out, HeaderIndex(out, category) + 1,
           SectionEnd(out, HeaderIndex(out, category)) - 1)

\* a is ahead of b: key races first, then the higher reporting percentage
Ahead(a, b) ==
    \/ a.key_race.b /\ ~b.key_race.b
    \/ /\ a.key_race.b = b.key_race.b
       /\ a.precincts_reporting_pct.n > b.precincts_reporting_pct.n

RaceOf(race_list, race_id) ==
    CHOOSE i \in 1..Len(race_list) : race_list[i].race_id = race_id

\* what the claim says of one category's section
SectionAsStated(race_list, lines) ==
    LET summaries == SelectSeq(lines, LAMBDA l : l.line = "summary")
        more      == SelectSeq(lines, LAMBDA l : l.line = "more")
        listed    == {race_list[i].race_id : i \in 1..Len(race_list)}
        shown     == {summaries[i].race_id : i \in 1..Len(summaries)}
        race(id)  == race_list[RaceOf(race_list, id)]
    IN  /\ Len(summaries) = IF Len(race_list) > 5 THEN 5 ELSE Len(race_list)
        /\ shown \subseteq listed
        /\ Cardinality(shown) = Len(summaries)
        /\ \A i, j \in 1..Len(summaries) :
              i < j => ~Ahead(race(summaries[j].race_id), race(summaries[i].race_id))
        /\ \A left \in listed \ shown, id \in shown : ~Ahead(race(left), race(id))
        /\ IF Len(race_list) > 5
           THEN /\ Len(more) = 1
                /\ more[1].n = Len(race_list) - 5
                /\ lines[Len(lines)] = more[1]
           ELSE Len(more) = 0

\* C27: a call of ConsoleFormatter.write_results writes, under each
\* category's header, at most 5 summaries: the first 5 of the category's
\* races ordered key races first and, among races of the same flag, by
\* falling precincts_reporting_pct; an "...and N more" line with N = length
\* - 5 ends the section exactly when the category has more than 5 races; the
\* "Total Races" line gives the sum of the lengths of the category lists;
\* and the call leaves the lists as they were.
C27_ConsoleShowsTopFive ==
    [][console_write_results_call =>
          /\ ~IsExc(result')
          /\ categories' = categories
          /\ LET out == result'.ret
                 totals == SelectSeq(out, LAMBDA l : l.line = "total")
             IN  /\ Len(totals) = 1
                 /\ totals[1].n = Cardinality(PlacedRecords)
                 /\ \A label \in MapKeys(categories) :
                       /\ \E i \in 1..Len(out) :
                             out[i].line = "category" /\ out[i].category = label
                       /\ SectionAsStated(categories.d[label],
                                          SectionLines(out, label))]_vars

\* the call wrote "...and 1 more" for six Governor races, and the first
\* summary is of the sixth race of the list: a key race reporting 25 percent,
\* listed after a race that is no key race and reports 75 percent
C27_Witness ==
    /\ result # NoResult /\ ~IsExc(result)
    /\ "Governor" \in MapKeys(categories)
    /\ Len(categories.d["Governor"]) = 6
    /\ ~categories.d["Governor"][1].key_race.b
    /\ categories.d["Governor"][1].precincts_reporting_pct = JNum(75)
    /\ categories.d["Governor"][6].precincts_reporting_pct = JNum(25)
    /\ \E i \in 1..Len(result.ret) :
          /\ result.ret[i] = Line("more", "Governor", 1, "", FALSE)
    /\ \E i \in 1..Len(result.ret) :
          /\ result.ret[i].line = "summary"
          /\ result.ret[i].race_id = "r6"
          /\ \A j \in 1..(i - 1) : result.ret[j].line # "summary"

-----------------------------------------------------------------------------
(* ElectionDatabase.load_csv_file                                          *)

\* the rows one CSV file may have in the database runs
MaxRows == 2

\* one row of a CSV file or of a table: the key columns and one value column;
\* county_fips is "" where the table has no such column, vote_count is JNull
\* for an empty cell
Row(race_id, county_fips, candidate_id, vote_count) ==
    [race_id |-> race_id, county_fips |-> county_fips,
     candidate_id |-> candidate_id, vote_count |-> vote_count]

\* what was printed last
Printed(text) == [printed |-> text]

\* the table the file name selects, "" for none
table_for(file_name) ==
    LET stem == JStr(str_lower(Chars(file_name)))
        has(pattern) == Contains(stem, pattern).ret
    IN  IF has("_detail") \/ has("_detailed") THEN "county_results"
        ELSE IF has("ballot") THEN "ballot_measures"
        ELSE IF has("house") THEN "house_races"
        ELSE IF has("governor") THEN "governor_races"
        ELSE IF has("senate") THEN "senate_races"
        ELSE IF has("president") THEN "presidential_races"
        ELSE ""

\* PRIMARY KEY (race_id, candidate_id), or (race_id, county_fips,
\* candidate_id) for county_results
primary_key(table_name, row) ==
    IF table_name = "county_results"
    THEN <<row.race_id, row.county_fips, row.candidate_id>>
    ELSE <<row.race_id, row.candidate_id>>

\* df[col].fillna(0) of the numeric columns
fill_missing(row) ==
    [row EXCEPT !.vote_count = IF @ = JNull THEN JNum(0) ELSE @]

\* variant: the rows of the file's race ids are not deleted first
delete_race_ids_none(rows, race_ids) == rows

\* DELETE FROM table WHERE race_id IN (race_ids)
delete_race_ids(rows, race_ids) == {row \in rows : row.race_id \notin race_ids}

\* df.to_sql(table_name, conn, if_exists='append'): the rows are inserted in
\* order, a row whose primary key the table has raises
RECURSIVE to_sql(_, _, _)
to_sql(table_name, rows, df) ==
    IF Len(df) = 0 THEN Ret(rows)
    ELSE IF \E row \in rows :
                primary_key(table_name, row) = primary_key(table_name, Head(df))
    THEN Raise("IntegrityError")
    ELSE to_sql(table_name, rows \cup {Head(df)}, Tail(df))

\* the tables after load_csv_file and what it printed last; the DELETE and
\* the insert are one transaction, an exception rolls both back
load_into(tables, file, table_name) ==
    LET df         == [i \in 1..Len(file.rows) |-> fill_missing(file.rows[i])]
        race_ids   == {df[i].race_id : i \in 1..Len(df)}
    IN  IF table_name = "" THEN [tables |-> tables, printed |-> Printed("Processing")]
        ELSE IF ~file.readable
        THEN [tables |-> tables, printed |-> Printed("Error loading")]
        ELSE LET loaded == to_sql(table_name,
                                  delete_race_ids(tables[table_name], race_ids), df)
             IN  IF IsExc(loaded)
                 THEN [tables |-> tables, printed |-> Printed("Error loading")]
                 ELSE [tables |-> [tables EXCEPT ![table_name] = loaded.ret],
                       printed |-> Printed("Successfully loaded")]

load_csv_file(tables, file) ==
    CHOOSE call \in {load_into(tables, file, table_name) :
                        table_name \in {table_for(file.name)}} : TRUE

GovernorRows ==
    <<Row("r1", "", "c1", JNum(5)), Row("r1", "", "c2", JNull),
      Row("r2", "", "c1", JNum(5)), Row("r2", "", "c2", JNull)>>

CountyRows ==
    <<Row("r1", "f1", "c1", JNum(5)), Row("r1", "f2", "c1", JNull)>>

\* the lists of up to MaxRows of the given rows, in the order of the rows,
\* a row possibly more than once
RowLists(rows) ==
    UNION {{[i \in 1..n |-> rows[at[i]]] :
               at \in {a \in [1..n -> 1..Len(rows)] :
                          \A i \in 1..(n - 1) : a[i] <= a[i + 1]}} : n \in 0..MaxRows}

CsvFiles ==
    {[name |-> "Governor_2024", readable |-> TRUE, rows |-> rows] :
        rows \in RowLists(GovernorRows)}
    \cup {[name |-> "governor_detailed_2024", readable |-> TRUE, rows |-> rows] :
             rows \in RowLists(CountyRows)}
    \cup {[name |-> "turnout_2024", readable |-> TRUE, rows |-> <<GovernorRows[1]>>],
          [name |-> "governor_2024", readable |-> FALSE, rows |-> <<>>]}

\* one call of load_csv_file on the given file
load_csv_file_on(file) ==
    /\ last_load' = file
    /\ \E call \in {load_csv_file(db_tables, file)} :
          /\ db_tables' = call.tables
          /\ result' = call.printed
    /\ UNCHANGED <<progress_data, metadata, races, categories, pc, idx, race_meta,
                   main_vars, detail_vars>>

load_csv_file_call == \E file \in CsvFiles : load_csv_file_on(file)

NextDatabase == load_csv_file_call

InitDatabase ==
    /\ BatchIdle
    /\ race_meta = JNull
    /\ result = NoResult
    /\ MainIdle
    /\ DatabaseIdle

SpecDatabase == InitDatabase /\ [][NextDatabase]_vars

Loaded == Printed("Successfully loaded")

\* the race ids occurring in a file
FileRaceIds(file) == {file.rows[i].race_id : i \in 1..Len(file.rows)}

\* the rows of a file with the given race id, as read
FileRowsOf(file, race_id) ==
    {[file.rows[i] EXCEPT !.vote_count = IF @ = JNull THEN JNum(0) ELSE @] :
        i \in {j \in 1..Len(file.rows) : file.rows[j].race_id = race_id}}

\* C28: load_csv_file replaces: after a load that succeeded, the target
\* table's rows of every race id occurring in the file are exactly the
\* file's rows of that race id, its rows of the other race ids and the other
\* tables are as before; a load that did not succeed leaves every table as
\* it was, the deleted rows included; and a load of the file that was loaded
\* with success in the step before leaves every table as it is.
C28_LoadReplaces ==
    [][\A file \in {last_load'} : load_csv_file_on(file) =>
          \A target \in {table_for(file.name)} :
              /\ IF result' = Loaded
                 THEN /\ \A race_id \in FileRaceIds(file) :
                            {row \in db_tables'[target] : row.race_id = race_id}
                                = FileRowsOf(file, race_id)
                      /\ {row \in db_tables'[target] : row.race_id \notin FileRaceIds(file)}
                            = {row \in db_tables[target] : row.race_id \notin FileRaceIds(file)}
                      /\ \A other \in TableNames \ {target} :
                            db_tables'[other] = db_tables[other]
                 ELSE db_tables' = db_tables
              /\ (result = Loaded /\ last_load = file) => db_tables' = db_tables]_vars

\* a Governor file with rows of race r1 only was loaded with success into a
\* table that keeps a row of race r2 from an earlier load and, after the
\* load, has exactly one row of r1; county results were loaded before
C28_Witness ==
    /\ result = Loaded
    /\ last_load # NoLoad
    /\ last_load.name = "Governor_2024"
    /\ FileRaceIds(last_load) = {"r1"}
    /\ \E row \in db_tables["governor_races"] : row.race_id = "r2"
    /\ Cardinality({row \in db_tables["governor_races"] : row.race_id = "r1"}) = 1
    /\ db_tables["county_results"] # {}

-----------------------------------------------------------------------------
(* DetailedFormatter.write_detailed_results, call after call.              *)

\* the calls of write_detailed_results one run of the detailed runs makes
MaxCalls == 3

\* one call: the arguments, and the year of the race id as a number
DetailedCall(race_type, race_id, year, county_results, candidate_meta) ==
    [race_type |-> race_type, race_id |-> race_id, year |-> year,
     county_results |-> county_results, candidate_meta |-> candidate_meta]

SecondUnit ==
    ReportingUnit("NC", GoodTime, CandidateList(<<"c2", "c1">>),
                  << <<"reportingunitName", S("Durham")>>, <<"fipsCode", S("37063")>>,
                     <<"reportingunitID", S("37032")>> >>)

OneCounty == get_detailed_results(Dict(<< <<"u1", Dict(GoodUnit)>> >>)).ret
TwoCounties ==
    get_detailed_results(Dict(<< <<"u1", Dict(GoodUnit)>>,
                                 <<"u2", Dict(SecondUnit)>> >>)).ret

OnlyFirstPerson == Dict(<< <<"c1", Person("Jane", "Doe", "Dem", 1, <<>>)>> >>)
OnlyFirstOption == Dict(<< <<"c1", Option("Yes", 1)>> >>)

DetailedCalls ==
    {DetailedCall("governor", target[1], target[2], given[1], given[2]) :
        target \in {<<"2024r1", 2024>>, <<"2024r2", 2024>>, <<"2022r1", 2022>>},
        given \in {<<OneCounty, People>>, <<TwoCounties, People>>,
                   <<TwoCounties, OnlyFirstPerson>>}}
    \cup {DetailedCall("ballot", "2024r5", 2024, given[1], given[2]) :
             given \in {<<OneCounty, Options>>, <<TwoCounties, Options>>,
                        <<TwoCounties, OnlyFirstOption>>}}

\* one call of write_detailed_results
write_detailed_results_on(call) ==
    /\ Len(log) < MaxCalls
    /\ log' = Append(log, Event("write_detailed_results", call.year, call.race_type,
                                <<call.race_id>>))
    /\ \E written \in {write_detailed_results(files, call.race_type, call.race_id,
                                              call.county_results,
                                              call.candidate_meta)} :
          /\ result' = (IF IsExc(written) THEN written ELSE Ret(JNull))
          /\ files' = (IF IsExc(written) THEN files ELSE written.ret)
    /\ UNCHANGED <<progress_data, metadata, races, categories, pc, idx, race_meta,
                   args, current_year, valid_years, main_pc, year_idx, max_attempts,
                   attempt, filtered_races, type_idx, race_idx, county_entry, db_vars>>

write_detailed_results_call == \E call \in DetailedCalls : write_detailed_results_on(call)

NextDetailed == write_detailed_results_call

InitDetailed ==
    /\ BatchIdle
    /\ race_meta = JNull
    /\ result = NoResult
    /\ MainIdle
    /\ DatabaseIdle

SpecDetailed == InitDetailed /\ [][NextDetailed]_vars

\* candidate_meta has the candidate id
KnownCandidate(candidate_meta, cand_id) ==
    \E key \in Keys(candidate_meta) : S(key) = cand_id

\* the place of a row in a call: its reporting unit among the call's units
\* and its candidate among the unit's candidates
UnitOf(call, row) ==
    CHOOSE i \in 1..Len(call.county_results) :
        call.county_results[i].county_id = row.county_id
CandidateOf(call, row) ==
    CHOOSE j \in 1..Len(call.county_results[UnitOf(call, row)].candidate_votes.k) :
        call.county_results[UnitOf(call, row)].candidate_votes.k[j] = row.candidate_id

\* the number of rows a call has to give: one per reporting unit and
\* candidate that candidate_meta has
KnownPairs(call) ==
    UNION {{<<i, j>> : j \in {p \in 1..Len(call.county_results[i].candidate_votes.k) :
                                 KnownCandidate(call.candidate_meta,
                                     call.county_results[i].candidate_votes.k[p])}} :
              i \in 1..Len(call.county_results)}

\* the rows are rows of the call, one for each known pair, unit by unit and
\* candidate by candidate
RowsOfCall(call, rows) ==
    /\ Len(rows) = Cardinality(KnownPairs(call))
    /\ \A p \in 1..Len(rows) :
          /\ rows[p].line = "row"
          /\ rows[p].race_id = call.race_id
          /\ \E i \in 1..Len(call.county_results) :
                call.county_results[i].county_id = rows[p].county_id
          /\ <<UnitOf(call, rows[p]), CandidateOf(call, rows[p])>> \in KnownPairs(call)
    /\ \A p, q \in 1..Len(rows) :
          p < q => \/ UnitOf(call, rows[p]) < UnitOf(call, rows[q])
                   \/ /\ UnitOf(call, rows[p]) = UnitOf(call, rows[q])
                      /\ CandidateOf(call, rows[p]) < CandidateOf(call, rows[q])

\* every file is one header row followed by rows
HeaderOnce ==
    \A filename \in MapKeys(files) :
        /\ Len(files.d[filename]) >= 1
        /\ files.d[filename][1].line = "header"
        /\ \A i \in 2..Len(files.d[filename]) : files.d[filename][i].line = "row"

\* what a call does to the files
Appended(call) ==
    LET filename == <<call.race_type, year_of(call.race_id)>>
        before   == IF filename \in MapKeys(files) THEN Len(files.d[filename]) ELSE 1
        after    == files'.d[filename]
    IN  /\ MapKeys(files') = MapKeys(files) \cup {filename}
        /\ \A other \in MapKeys(files) \ {filename} : files'.d[other] = files.d[other]
        /\ Len(after) >= before
        /\ filename \in MapKeys(files) => SubSeq(after, 1, before) = files.d[filename]
        /\ RowsOfCall(call, SubSeq(after, before + 1, Len(after)))

\* C29: after any sequence of write_detailed_results calls, the file of a
\* race type and year holds the header row exactly once, as its first line,
\* followed by the rows of every call for that race type and year in call
\* order: a call leaves the lines that are in the file as they are and adds
\* its own rows after them, one for each reporting unit and candidate that
\* the candidate metadata has, none for a candidate it does not have.
C29_DetailedFileAppendOnly ==
    /\ []HeaderOnce
    /\ [][\A call \in DetailedCalls : write_detailed_results_on(call) => Appended(call)]_vars

\* three calls: two for Governor races of 2024, the second without metadata
\* of candidate c2, and the file has the header, the two rows of the first
\* call and the two rows of the second; another file was written between
C29_Witness ==
    /\ Len(log) = 3
    /\ log[1] = Event("write_detailed_results", 2024, "governor", <<"2024r1">>)
    /\ log[2].what = "ballot"
    /\ log[3] = Event("write_detailed_results", 2024, "governor", <<"2024r2">>)
    /\ <<"governor", Chars("2024")>> \in MapKeys(files)
    /\ LET file == files.d[<<"governor", Chars("2024")>>]
       IN  /\ Len(file) = 5
           /\ file[2].race_id = "2024r1" /\ file[3].race_id = "2024r1"
           /\ file[4].race_id = "2024r2" /\ file[5].race_id = "2024r2"
           /\ file[4].candidate_id = S("c1") /\ file[5].candidate_id = S("c1")
           /\ file[4].county_id # file[5].county_id

====
